---- MODULE Spec2Model ----
(***************************************************************************)
(* A model of the guest-side execution core of Quark: the signal state     *)
(* machine of a thread group (qkernel/src/threadmgr/task_signals.rs), the  *)
(* host-FD notifier (qkernel/src/guestfdnotifier.rs), the open file        *)
(* handle (qkernel/src/fs/file.rs), the executable loader                  *)
(* (qkernel/src/loader/loader.rs) and the host IO thread's processing      *)
(* loop (qvisor/src/kvmlib/runc/runtime/vm.rs).                            *)
(*                                                                         *)
(* Signal sets (SignalSet, a 64-bit word with bit sig-1 for signal sig)    *)
(* are modelled as sets of signal numbers; a pending queue is a function   *)
(* from signal number to the number of queued SignalInfo of that signal.   *)
(* Every section of code that runs with the thread group's signal mutex    *)
(* held is one atomic action; where the code drops the mutex the thread's  *)
(* position is kept in pc and other threads may run in between.            *)
(***************************************************************************)
EXTENDS Integers, Sequences, FiniteSets, TLC

VARIABLES
    th,       \* per-thread signal state (ThreadInternal)
    tg,       \* thread-group signal state (ThreadGroupInternal)
    sh,       \* tg.signalHandlers.actions: signal -> SigAct
    pc,       \* each thread's position in its task loop
    loc,      \* each thread's locals that live across a dropped mutex
    ustack,   \* each thread's signal frames on its user stack
    parent,   \* signalStop calls made on the leader's parent, by code
    last,     \* the last kernel entry point that ran, and its result
    budget,   \* operations the environment may still start
    hist,     \* the threads a SIGCONT continued, the parent notifications due
    fdMap,    \* Notifier: fd -> GuestFdInfo (mask, userdata), or NoEntry
    qmask,    \* the waiter queue's requested event mask, per fd
    ring,     \* the poll submissions outstanding on the submission ring
    npc,      \* each notifier caller's position
    nloc,     \* each notifier caller's fd and the mask UpdateFD read
    nlast,    \* the last notifier operation that ran, and its ring operations
    file,     \* a File: FileInternal's offset, offset lock, flags, async owner
    fpc,      \* each file user's position in the File operation it runs
    floc,     \* each file user's locals and the handles it holds
    flast,    \* the last File operation that returned, and its result
    fhist,    \* offsets the seekable reads and writes so far started at
    ld,       \* LoadExecutable: its locals and its result
    ldfs,     \* the files LoadExecutable finds: path -> kind of file
    call,     \* the last call of a function without state, and what it returned
    vm,       \* the host IO thread in VirtualMachine::Process, and EXIT_STATUS
    lk        \* the holders of a thread's mutex and of its group's signalLock

sigVars == <<th, tg, sh, pc, loc, ustack, parent>>
notVars == <<fdMap, qmask, ring, npc, nloc, nlast>>
fileVars == <<file, fpc, floc, flast, fhist>>
ldVars == <<ld, ldfs>>
\* what the signal code and the notifier never touch
restVars == <<fileVars, ldVars, call, vm, lk>>
\* what the File operations never touch, and what the loader never touches
nonFileVars == <<sigVars, last, budget, hist, notVars, ldVars, call, vm, lk>>
nonLdVars == <<sigVars, last, budget, hist, notVars, fileVars, call, vm, lk>>
vars == <<th, tg, sh, pc, loc, ustack, parent, last, budget, hist,
          fdMap, qmask, ring, npc, nloc, nlast,
          file, fpc, floc, flast, fhist, ld, ldfs, call, vm, lk>>

----------------------------------------------------------------------------
(* Bounds of the model *)

\* number of threads of the thread group
NumTasks == 2
\* signal sends the environment may make in one behaviour
MaxSends == 2
\* mask-changing system calls (SetSignalMask, Sigtimedwait) in one behaviour
MaxMaskOps == 2
\* SetSignalAct calls in one behaviour
MaxActOps == 1

Tasks == 1..NumTasks

----------------------------------------------------------------------------
(* Signal numbers and signal sets *)

SIGKILL == 9
SIGUSR1 == 10
SIGSEGV == 11
SIGCHLD == 17
SIGCONT == 18
SIGSTOP == 19
SIGTSTP == 20
SIGTTIN == 21
SIGTTOU == 22
SIGRTMIN == 34
SignalMaximum == 64

AllSignals == 1..SignalMaximum

\* SignalAction
TERM == 0
CORE == 1
STOP == 2
IGNORE == 3
HANDLER == 4

\* SigAct.handler values
SIGNAL_ACT_DEFAULT == 0
SIGNAL_ACT_IGNORE == 1
UserHandler == 4096

DEFAULT_ACTION ==
    <<TERM, TERM, CORE, CORE, CORE, CORE, CORE, CORE, TERM, TERM,
      CORE, TERM, TERM, TERM, TERM, TERM, IGNORE, IGNORE, STOP, STOP,
      STOP, STOP, IGNORE, CORE, CORE, TERM, TERM, IGNORE, TERM, CORE, CORE>>

UNBLOCKED_SIGNALS == {SIGKILL, SIGSTOP}
UNMASKABLE_MASK == {SIGKILL, SIGSTOP}
STOP_SIGNALS == {SIGSTOP, SIGTSTP, SIGTTIN, SIGTTOU}

IsValid(sig) == 0 < sig /\ sig <= SignalMaximum
IsRealtime(sig) == sig >= 32 /\ sig <= SignalMaximum

\* the signals whose queues the model keeps
ModelSigs == {SIGKILL, SIGUSR1, SIGSEGV, SIGCONT, SIGSTOP, SIGTSTP, SIGRTMIN}

DefaultAct == [handler |-> SIGNAL_ACT_DEFAULT, mask |-> {}, flags |-> {}]

\* a ComputeAction that looks at the handler before the signal number
ComputeAction_HandlerFirst(sig, act) ==
    IF act.handler = SIGNAL_ACT_IGNORE THEN IGNORE
    ELSE IF sig = SIGSTOP THEN STOP
    ELSE IF sig = SIGKILL THEN TERM
    ELSE IF sig = 0 THEN IGNORE
    ELSE IF act.handler = SIGNAL_ACT_DEFAULT
         THEN IF sig >= 32 THEN HANDLER ELSE DEFAULT_ACTION[sig]
         ELSE HANDLER

ComputeAction(sig, act) ==
    IF sig = SIGSTOP THEN STOP
    ELSE IF sig = SIGKILL THEN TERM
    ELSE IF sig = 0 THEN IGNORE
    ELSE IF act.handler = SIGNAL_ACT_DEFAULT
         THEN IF sig >= 32 THEN HANDLER ELSE DEFAULT_ACTION[sig]
         ELSE IF act.handler = SIGNAL_ACT_IGNORE THEN IGNORE ELSE HANDLER

----------------------------------------------------------------------------
(* Pending signal queues *)

EmptyQueue == [s \in ModelSigs |-> 0]
pendingSet(q) == {s \in ModelSigs : q[s] > 0}

\* the instances of one real-time signal a queue holds
MaxRtQueued == 1

\* Enque: a standard signal that is already pending is not queued again, nor
\* is a real-time signal whose queue is full
EnqueOk(q, sig) == IF IsRealtime(sig) THEN q[sig] < MaxRtQueued ELSE q[sig] = 0
Enque(q, sig) == [q EXCEPT ![sig] = @ + 1]

\* Deque: the lowest-numbered pending signal that mask does not block
DequeSig(q, mask) ==
    LET c == pendingSet(q) \ mask
    IN IF c = {} THEN 0 ELSE CHOOSE s \in c : \A x \in c : s <= x
Deque(q, sig) == [q EXCEPT ![sig] = @ - 1]
Discard(q, sig) == IF sig \in ModelSigs THEN [q EXCEPT ![sig] = 0] ELSE q

----------------------------------------------------------------------------
(* Task exit states, task stops, the blocker's interrupt flag *)

TaskExitNone == 0
TaskExitInitiated == 1
TaskExitZombie == 2
TaskExitDead == 3

NoStop == "none"
GROUPSTOP == "groupstop"

\* The state the locked helpers transform: the threads, the group, the
\* signal handler table.
St == [th |-> th, tg |-> tg, sh |-> sh]

GetAct(s, sig) == s.sh[sig]

interrupt(s, t) == [s EXCEPT !.th[t].interrupted = TRUE]
interruptSelf(s, t) == interrupt(s, t)

beginInternalStopLocked(s, t) == [s EXCEPT !.th[t].stop = GROUPSTOP]
endInternalStopLocked(s, t) == [s EXCEPT !.th[t].stop = NoStop]

killedLocked(s, t) == s.th[t].pendingSignals[SIGKILL] > 0

\* killLocked: end a killable stop, queue SIGKILL on the thread, interrupt it
killLocked(s, t) ==
    LET s1 == IF s.th[t].stop # NoStop THEN endInternalStopLocked(s, t) ELSE s
        s2 == IF EnqueOk(s1.th[t].pendingSignals, SIGKILL)
              THEN [s1 EXCEPT !.th[t].pendingSignals = Enque(@, SIGKILL)]
              ELSE s1
    IN interrupt(s2, t)

RECURSIVE ForEachTask(_, _, _)
\* for t in &tg.tasks { f(t) }, in the order of the task set
ForEachTask(s, f(_, _), ts) ==
    IF ts = {} THEN s
    ELSE LET t == CHOOSE x \in ts : \A y \in ts : x <= y
         IN ForEachTask(f(s, t), f, ts \ {t})

----------------------------------------------------------------------------
(* ThreadInternal *)

\* dequeueSignalLocked: the thread's own queue first, then the group's.
\* Returns the signal dequeued (0 for none) and the state.
dequeueSignalLocked(s, t, mask) ==
    LET own == DequeSig(s.th[t].pendingSignals, mask)
        grp == DequeSig(s.tg.pendingSignals, mask)
    IN IF own # 0
       THEN [sig |-> own, st |-> [s EXCEPT !.th[t].pendingSignals = Deque(@, own)]]
       ELSE IF grp # 0
       THEN [sig |-> grp, st |-> [s EXCEPT !.tg.pendingSignals = Deque(@, grp)]]
       ELSE [sig |-> 0, st |-> s]

\* a participateGroupStopLocked whose last participant does not mark the
\* group stop complete
participateGroupStopLocked_NoComplete(s, t) ==
    IF s.th[t].groupStopAcknowledged
    THEN [ret |-> FALSE, st |-> s]
    ELSE [ret |-> FALSE,
          st |-> [s EXCEPT !.th[t].groupStopAcknowledged = TRUE,
                           !.tg.groupStopPendingCount = @ - 1]]

participateGroupStopLocked(s, t) ==
    IF s.th[t].groupStopAcknowledged
    THEN [ret |-> FALSE, st |-> s]
    ELSE LET s1 == [s EXCEPT !.th[t].groupStopAcknowledged = TRUE,
                             !.tg.groupStopPendingCount = @ - 1]
         IN IF s1.tg.groupStopPendingCount # 0
            THEN [ret |-> FALSE, st |-> s1]
            ELSE IF s1.tg.groupStopComplete
            THEN [ret |-> FALSE, st |-> s1]
            ELSE [ret |-> TRUE,
                  st |-> [s1 EXCEPT !.tg.groupStopComplete = TRUE,
                                    !.tg.groupStopWaitable = TRUE,
                                    !.tg.groupContNotify = FALSE,
                                    !.tg.groupContWaitable = FALSE]]

\* a canReceiveSignalLocked that also accepts stopped tasks
canReceiveSignalLocked_IgnoresStop(s, t, sig) ==
    /\ sig \notin s.th[t].signalMask
    /\ ~s.th[t].interrupted

canReceiveSignalLocked(s, t, sig) ==
    /\ sig \notin s.th[t].signalMask
    /\ s.th[t].stop = NoStop
    /\ ~s.th[t].interrupted

----------------------------------------------------------------------------
(* ThreadGroupInternal *)

\* a discardSpecificLocked that forgets the threads' own queues
discardSpecificLocked_GroupQueueOnly(s, sig) ==
    [s EXCEPT !.tg.pendingSignals = Discard(@, sig)]

discardSpecificLocked(s, sig) ==
    [s EXCEPT !.tg.pendingSignals = Discard(@, sig),
              !.th = [t \in Tasks |->
                        [s.th[t] EXCEPT !.pendingSignals = Discard(@, sig)]]]

findSignalReceiverLocked(s, sig) ==
    LET c == {t \in Tasks : canReceiveSignalLocked(s, t, sig)}
    IN IF c = {} THEN 0 ELSE CHOOSE t \in c : \A x \in c : t <= x

endStopOfTask(s, t) ==
    LET s1 == [s EXCEPT !.th[t].groupStopPending = TRUE]
    IN IF s1.th[t].stop = GROUPSTOP THEN endInternalStopLocked(s1, t) ELSE s1

endGroupStopLocked(s, broadcast) ==
    LET s1 == discardSpecificLocked(
                discardSpecificLocked(
                  discardSpecificLocked(
                    discardSpecificLocked(s, SIGSTOP), SIGTSTP), SIGTTIN), SIGTTOU)
    IN IF s1.tg.groupStopPendingCount = 0 /\ ~s1.tg.groupStopComplete
       THEN s1
       ELSE LET s2 == ForEachTask(s1, endStopOfTask, Tasks)
                s3 == IF broadcast
                      THEN [s2 EXCEPT !.tg.groupContNotify = TRUE,
                                      !.tg.groupContInterrupted = ~s2.tg.groupStopComplete,
                                      !.tg.groupContWaitable = TRUE]
                      ELSE s2
            IN [s3 EXCEPT !.tg.groupStopDequeued = FALSE,
                          !.tg.groupStopSignal = 0,
                          !.tg.groupStopPendingCount = 0,
                          !.tg.groupStopComplete = FALSE,
                          !.tg.groupStopWaitable = FALSE]

\* an applySignalSideEffectsLocked whose SIGKILL replaces the exit status of a
\* group that is already exiting
applySignalSideEffectsLocked_OverwritesStatus(s, sig) ==
    IF sig \in STOP_SIGNALS
    THEN discardSpecificLocked(s, SIGCONT)
    ELSE IF sig = SIGCONT
    THEN endGroupStopLocked(s, TRUE)
    ELSE IF sig = SIGKILL
    THEN LET s1 == [s EXCEPT !.tg.exiting = TRUE,
                             !.tg.exitStatus = [Code |-> 0, Signo |-> SIGKILL]]
         IN ForEachTask(s1, killLocked, Tasks)
    ELSE s

applySignalSideEffectsLocked(s, sig) ==
    IF sig \in STOP_SIGNALS
    THEN discardSpecificLocked(s, SIGCONT)
    ELSE IF sig = SIGCONT
    THEN endGroupStopLocked(s, TRUE)
    ELSE IF sig = SIGKILL
    THEN LET s1 == IF ~s.tg.exiting
                   THEN [s EXCEPT !.tg.exiting = TRUE,
                                  !.tg.exitStatus = [Code |-> 0, Signo |-> SIGKILL]]
                   ELSE s
         IN ForEachTask(s1, killLocked, Tasks)
    ELSE s

----------------------------------------------------------------------------
(* Thread *)

RECURSIVE ReplaceReceivers(_, _)
\* blockedGroupPending.ForEachSignal(|sig| interrupt the receiver found)
ReplaceReceivers(s, sigs) ==
    IF sigs = {} THEN s
    ELSE LET sig == CHOOSE x \in sigs : \A y \in sigs : x <= y
             nt == findSignalReceiverLocked(s, sig)
             s1 == IF nt # 0 THEN interrupt(s, nt) ELSE s
         IN ReplaceReceivers(s1, sigs \ {sig})

\* a setSignalMaskLocked that does not interrupt the caller for the pending
\* signals it unblocks
setSignalMaskLocked_NoUnblockInterrupt(s, t, newMask) ==
    LET mask == newMask \ UNMASKABLE_MASK
        oldMask == s.th[t].signalMask
        s1 == [s EXCEPT !.th[t].signalMask = mask]
        blocked == mask \ oldMask
        blockedGroupPending == blocked \cap pendingSet(s1.tg.pendingSignals)
    IN IF blockedGroupPending # {} /\ s1.th[t].interrupted
       THEN interruptSelf(
              ReplaceReceivers([s1 EXCEPT !.th[t].interrupted = FALSE],
                               blockedGroupPending), t)
       ELSE s1

\* a setSignalMaskLocked that does not re-issue the interrupt it consumed
setSignalMaskLocked_NoReissue(s, t, newMask) ==
    LET mask == newMask \ UNMASKABLE_MASK
        oldMask == s.th[t].signalMask
        s1 == [s EXCEPT !.th[t].signalMask = mask]
        blocked == mask \ oldMask
        blockedGroupPending == blocked \cap pendingSet(s1.tg.pendingSignals)
        s2 == IF blockedGroupPending # {} /\ s1.th[t].interrupted
              THEN ReplaceReceivers([s1 EXCEPT !.th[t].interrupted = FALSE],
                                    blockedGroupPending)
              ELSE s1
        unblocked == oldMask \ mask
        unblockedPending == unblocked \cap (pendingSet(s2.th[t].pendingSignals)
                                            \cup pendingSet(s2.tg.pendingSignals))
    IN IF unblockedPending # {} THEN interruptSelf(s2, t) ELSE s2

\* a setSignalMaskLocked that installs the requested mask as given
setSignalMaskLocked_KeepUnmaskable(s, t, newMask) ==
    LET oldMask == s.th[t].signalMask
        s1 == [s EXCEPT !.th[t].signalMask = newMask]
        unblockedPending == (oldMask \ newMask)
                              \cap (pendingSet(s1.th[t].pendingSignals)
                                    \cup pendingSet(s1.tg.pendingSignals))
    IN IF unblockedPending # {} THEN interruptSelf(s1, t) ELSE s1

setSignalMaskLocked(s, t, newMask) ==
    LET mask == newMask \ UNMASKABLE_MASK
        oldMask == s.th[t].signalMask
        s1 == [s EXCEPT !.th[t].signalMask = mask]
        blocked == mask \ oldMask
        blockedGroupPending == blocked \cap pendingSet(s1.tg.pendingSignals)
        s2 == IF blockedGroupPending # {} /\ s1.th[t].interrupted
              THEN interruptSelf(
                     ReplaceReceivers([s1 EXCEPT !.th[t].interrupted = FALSE],
                                      blockedGroupPending), t)
              ELSE s1
        unblocked == oldMask \ mask
        unblockedPending == unblocked \cap (pendingSet(s2.th[t].pendingSignals)
                                            \cup pendingSet(s2.tg.pendingSignals))
    IN IF unblockedPending # {} THEN interruptSelf(s2, t) ELSE s2

forceSignal(s, t, sig, unconditional) ==
    LET blocked == sig \in s.th[t].signalMask
        act == GetAct(s, sig)
        ignored == act.handler = SIGNAL_ACT_IGNORE
    IN IF blocked \/ ignored \/ unconditional
       THEN LET s1 == [s EXCEPT !.sh[sig] = [act EXCEPT !.handler = SIGNAL_ACT_DEFAULT]]
            IN IF blocked
               THEN setSignalMaskLocked(s1, t, s1.th[t].signalMask \ {sig})
               ELSE s1
       ELSE s

stopTask(s, t2) ==
    IF killedLocked(s, t2) \/ s.th[t2].exitState >= TaskExitInitiated
    THEN [s EXCEPT !.th[t2].groupStopPending = FALSE]
    ELSE interrupt([s EXCEPT !.th[t2].groupStopPending = TRUE,
                             !.th[t2].groupStopAcknowledged = FALSE], t2)

initiateGroupStop(s, t, signo) ==
    IF s.th[t].groupStopPending THEN s
    ELSE IF ~s.tg.groupStopDequeued THEN s
    ELSE IF s.tg.exiting THEN s
    ELSE IF s.tg.execing THEN s
    ELSE LET s1 == IF ~s.tg.groupStopComplete
                   THEN [s EXCEPT !.tg.groupStopSignal = signo]
                   ELSE s
             s2 == ForEachTask(s1, stopTask, Tasks)
             add == Cardinality({t2 \in Tasks :
                        ~(killedLocked(s1, t2)
                          \/ s1.th[t2].exitState >= TaskExitInitiated)})
         IN [s2 EXCEPT !.tg.groupStopPendingCount = add]

\* a sendSignalTimerLocked that queues ignored signals as well
sendSignalTimerLocked_NoDiscard(s, t, sig, group) ==
    IF s.th[t].exitState = TaskExitDead THEN [ret |-> "ESRCH", st |-> s]
    ELSE IF sig = 0 THEN [ret |-> "Ok", st |-> s]
    ELSE IF ~IsValid(sig) THEN [ret |-> "EINVAL", st |-> s]
    ELSE
      LET s1 == applySignalSideEffectsLocked(s, sig)
          q == IF ~group THEN s1.th[t].pendingSignals ELSE s1.tg.pendingSignals
          s2 == IF ~EnqueOk(q, sig) THEN s1
                ELSE IF ~group
                THEN [s1 EXCEPT !.th[t].pendingSignals = Enque(@, sig)]
                ELSE [s1 EXCEPT !.tg.pendingSignals = Enque(@, sig)]
      IN [ret |-> "Ok", st |-> interrupt(s2, t)]

\* a sendSignalTimerLocked that does not look at the target's exit state
sendSignalTimerLocked_NoExitCheck(s, t, sig, group) ==
    IF sig = 0 THEN [ret |-> "Ok", st |-> s]
    ELSE IF ~IsValid(sig) THEN [ret |-> "EINVAL", st |-> s]
    ELSE
      LET s1 == applySignalSideEffectsLocked(s, sig)
          q == IF ~group THEN s1.th[t].pendingSignals ELSE s1.tg.pendingSignals
          s2 == IF ~EnqueOk(q, sig) THEN s1
                ELSE IF ~group
                THEN [s1 EXCEPT !.th[t].pendingSignals = Enque(@, sig)]
                ELSE [s1 EXCEPT !.tg.pendingSignals = Enque(@, sig)]
      IN [ret |-> "Ok", st |-> s2]

\* a sendSignalTimerLocked that decides the discard by signalMask alone
sendSignalTimerLocked_NoRealMask(s, t, sig, group) ==
    IF s.th[t].exitState = TaskExitDead THEN [ret |-> "ESRCH", st |-> s]
    ELSE IF sig = 0 THEN [ret |-> "Ok", st |-> s]
    ELSE IF ~IsValid(sig) THEN [ret |-> "EINVAL", st |-> s]
    ELSE
      LET s1 == applySignalSideEffectsLocked(s, sig)
          ignored == ComputeAction(sig, GetAct(s1, sig)) = IGNORE
      IN IF sig \notin s1.th[t].signalMask /\ ignored
         THEN [ret |-> "Ok", st |-> s1]
         ELSE
           LET q == IF ~group THEN s1.th[t].pendingSignals ELSE s1.tg.pendingSignals
               res == EnqueOk(q, sig)
               s2 == IF ~res THEN s1
                     ELSE IF ~group
                     THEN [s1 EXCEPT !.th[t].pendingSignals = Enque(@, sig)]
                     ELSE [s1 EXCEPT !.tg.pendingSignals = Enque(@, sig)]
           IN IF ~res
              THEN [ret |-> IF IsRealtime(sig) THEN "EAGAIN" ELSE "Ok", st |-> s2]
              ELSE IF canReceiveSignalLocked(s2, t, sig)
              THEN [ret |-> "Ok", st |-> interrupt(s2, t)]
              ELSE LET nt == IF group THEN findSignalReceiverLocked(s2, sig) ELSE 0
                   IN [ret |-> "Ok",
                       st |-> IF nt # 0 THEN interrupt(s2, nt) ELSE s2]

\* a sendSignalTimerLocked that goes on to select a receiver when the signal
\* was not queued
sendSignalTimerLocked_NotifiesRejected(s, t, sig, group) ==
    IF s.th[t].exitState = TaskExitDead THEN [ret |-> "ESRCH", st |-> s]
    ELSE IF sig = 0 THEN [ret |-> "Ok", st |-> s]
    ELSE IF ~IsValid(sig) THEN [ret |-> "EINVAL", st |-> s]
    ELSE
      LET s1 == applySignalSideEffectsLocked(s, sig)
          ignored == ComputeAction(sig, GetAct(s1, sig)) = IGNORE
      IN IF sig \notin s1.th[t].signalMask /\ sig \notin s1.th[t].realSignalMask
            /\ ignored
         THEN [ret |-> "Ok", st |-> s1]
         ELSE
           LET q == IF ~group THEN s1.th[t].pendingSignals ELSE s1.tg.pendingSignals
               res == EnqueOk(q, sig)
               s2 == IF ~res THEN s1
                     ELSE IF ~group
                     THEN [s1 EXCEPT !.th[t].pendingSignals = Enque(@, sig)]
                     ELSE [s1 EXCEPT !.tg.pendingSignals = Enque(@, sig)]
               ret == IF ~res /\ IsRealtime(sig) THEN "EAGAIN" ELSE "Ok"
           IN IF canReceiveSignalLocked(s2, t, sig)
              THEN [ret |-> ret, st |-> interrupt(s2, t)]
              ELSE LET nt == IF group THEN findSignalReceiverLocked(s2, sig) ELSE 0
                   IN [ret |-> ret,
                       st |-> IF nt # 0 THEN interrupt(s2, nt) ELSE s2]

\* sendSignalTimerLocked with no interval timer attached.
\* Returns the state and the Result: "Ok" or the errno.
sendSignalTimerLocked(s, t, sig, group) ==
    IF s.th[t].exitState = TaskExitDead THEN [ret |-> "ESRCH", st |-> s]
    ELSE IF sig = 0 THEN [ret |-> "Ok", st |-> s]
    ELSE IF ~IsValid(sig) THEN [ret |-> "EINVAL", st |-> s]
    ELSE
      LET s1 == applySignalSideEffectsLocked(s, sig)
          ignored == ComputeAction(sig, GetAct(s1, sig)) = IGNORE
      IN IF sig \notin s1.th[t].signalMask /\ sig \notin s1.th[t].realSignalMask
            /\ ignored
         THEN [ret |-> "Ok", st |-> s1]
         ELSE
           LET q == IF ~group THEN s1.th[t].pendingSignals ELSE s1.tg.pendingSignals
               res == EnqueOk(q, sig)
               s2 == IF ~res THEN s1
                     ELSE IF ~group
                     THEN [s1 EXCEPT !.th[t].pendingSignals = Enque(@, sig)]
                     ELSE [s1 EXCEPT !.tg.pendingSignals = Enque(@, sig)]
           IN IF ~res
              THEN [ret |-> IF IsRealtime(sig) THEN "EAGAIN" ELSE "Ok", st |-> s2]
              ELSE IF canReceiveSignalLocked(s2, t, sig)
              THEN [ret |-> "Ok", st |-> interrupt(s2, t)]
              ELSE LET nt == IF group THEN findSignalReceiverLocked(s2, sig) ELSE 0
                   IN [ret |-> "Ok",
                       st |-> IF nt # 0 THEN interrupt(s2, nt) ELSE s2]

sendSignalLocked(s, t, sig, group) == sendSignalTimerLocked(s, t, sig, group)

\* PrepareGroupExit: the first exit wins; every other task is killed
PrepareGroupExit(s, t, signo) ==
    IF s.tg.exiting \/ s.tg.execing THEN s
    ELSE LET s1 == [s EXCEPT !.tg.exiting = TRUE,
                             !.tg.exitStatus = [Code |-> 0, Signo |-> signo]]
         IN ForEachTask(s1, killLocked, Tasks \ {t})

----------------------------------------------------------------------------
(* Initial state: a thread group of NumTasks running threads, led by     *)
(* thread 1, with empty queues, empty masks and default signal actions.  *)

CLD_STOPPED == 5
CLD_CONTINUED == 6

\* EFLAGS as the set of its set bits: R1 is the reserved bit 1 (value 0x2), CF
\* and ZF are bits sigreturn restores, ID is one it does not restore
EFLAGS_RESTOREABLE == {"CF", "ZF"}
\* regs.r11 = 0x2; regs.eflags = regs.r11
HandlerEflags == {"R1"}
\* the alternate signal stack of a task that has set none
NoSignalStack == [enable |-> FALSE, onStack |-> FALSE]

InitThread ==
    [pendingSignals |-> EmptyQueue,
     signalMask |-> {}, realSignalMask |-> {},
     savedSignalMask |-> {}, haveSavedSignalMask |-> FALSE,
     stop |-> NoStop, exitState |-> TaskExitNone,
     groupStopPending |-> FALSE, groupStopAcknowledged |-> FALSE,
     trapStopPending |-> FALSE, trapNotifyPending |-> FALSE,
     interrupted |-> FALSE,
     signalStack |-> NoSignalStack, eflags |-> HandlerEflags]

InitGroup ==
    [pendingSignals |-> EmptyQueue,
     groupStopPendingCount |-> 0, groupStopComplete |-> FALSE,
     groupStopSignal |-> 0, groupStopDequeued |-> FALSE,
     groupStopWaitable |-> FALSE,
     groupContNotify |-> FALSE, groupContInterrupted |-> FALSE,
     groupContWaitable |-> FALSE,
     exiting |-> FALSE, exitStatus |-> [Code |-> 0, Signo |-> 0],
     execing |-> FALSE]

InitLoc == [info |-> 0, act |-> DefaultAct, sig |-> 0, intr |-> FALSE,
            notifyParent |-> FALSE, mask |-> {}, entryMask |-> {}]

NoOp == [op |-> "none", t |-> 0, sig |-> 0, ret |-> "none", arg |-> {}]
\* a step inside the task loop that is no entry point of its own
Step == [op |-> "step", t |-> 0, sig |-> 0, ret |-> "none", arg |-> {}]
Op(o, t, sig, ret) == [op |-> o, t |-> t, sig |-> sig, ret |-> ret, arg |-> {}]
\* arg: the signal set the call was given, or the mask it found at entry
OpArg(o, t, sig, ret, arg) == [op |-> o, t |-> t, sig |-> sig, ret |-> ret, arg |-> arg]

InitSignals ==
    /\ th = [t \in Tasks |-> InitThread]
    /\ tg = InitGroup
    /\ sh = [s \in ModelSigs |-> DefaultAct]
    /\ pc = [t \in Tasks |-> "app"]
    /\ loc = [t \in Tasks |-> InitLoc]
    /\ ustack = [t \in Tasks |-> <<>>]
    /\ parent = [exists |-> TRUE, stopped |-> 0, continued |-> 0]
    /\ last = NoOp
    /\ budget = [sends |-> MaxSends, maskops |-> MaxMaskOps, actops |-> MaxActOps]
    /\ hist = [contTasks |-> {},
               contDue |-> [c \in {CLD_STOPPED, CLD_CONTINUED} |-> 0],
               contExtra |-> 0, discarded |-> {}]

\* th, tg and sh take the values of the transformed state
Commit(s) == \E c \in {s} : th' = c.th /\ tg' = c.tg /\ sh' = c.sh

----------------------------------------------------------------------------
(* Signal sends: Thread::SendSignal (group = FALSE) and                  *)
(* Thread::SendGroupSignal (group = TRUE), under the signal mutex.       *)

\* the signal numbers the environment sends: 0, valid ones, an invalid one
SendSigs == {0, SIGKILL, SIGUSR1, SIGCONT, SIGSTOP, SIGTSTP, SignalMaximum + 1}

\* the non-killed threads that are in the internal group stop or have a
\* group stop pending
InGroupStop ==
    {u \in Tasks : /\ ~killedLocked(St, u)
                   /\ th[u].stop = GROUPSTOP \/ th[u].groupStopPending}

\* a group stop is in progress or complete: a SIGCONT sent now ends it and
\* schedules the notification of the parent
EndsGroupStop == tg.groupStopPendingCount # 0 \/ tg.groupStopComplete
\* the code of the SIGCHLD that is due to the parent when the stop is ended
ContCode == IF tg.groupStopComplete THEN CLD_CONTINUED ELSE CLD_STOPPED

\* the signal sig is queued in the group's queue or in a thread's queue
QueuedAnywhere(s, sig) ==
    \/ s.tg.pendingSignals[sig] > 0
    \/ \E u \in Tasks : s.th[u].pendingSignals[sig] > 0
\* the signals a step from s to s1 removed from every queue of the group
Discarded(s, s1) ==
    {x \in ModelSigs : QueuedAnywhere(s, x) /\ ~QueuedAnywhere(s1, x)}

SendSignal(t, sig, group) ==
    /\ budget.sends > 0
    /\ LET r == sendSignalLocked(St, t, sig, group)
       IN /\ Commit(r.st)
          /\ last' = Op(IF group THEN "SendGroupSignal" ELSE "SendSignal", t, sig, r.ret)
    /\ budget' = [budget EXCEPT !.sends = @ - 1]
    /\ hist' = LET d == Discarded(St, sendSignalLocked(St, t, sig, group).st)
               IN IF sig = SIGCONT /\ th[t].exitState # TaskExitDead
                  THEN IF EndsGroupStop
                       THEN [hist EXCEPT !.contTasks = InGroupStop,
                                         !.contDue[ContCode] = @ + 1,
                                         !.discarded = d]
                       ELSE [hist EXCEPT !.contTasks = InGroupStop,
                                         !.discarded = d]
                  ELSE IF sig \in STOP_SIGNALS
                  THEN [hist EXCEPT !.contTasks = {}, !.discarded = d]
                  ELSE [hist EXCEPT !.discarded = d]
    /\ UNCHANGED <<pc, loc, ustack, parent, notVars, restVars>>

----------------------------------------------------------------------------
(* The task loop.  pc[t] is                                              *)
(*   "app"        running user code (or about to return to it)           *)
(*   "intr"       at the entry of Task::RunInterrupt                     *)
(*   "contNotify" RunInterrupt, signal mutex dropped, before the parent  *)
(*                is told of the group continue                          *)
(*   "stopBegin"  RunInterrupt, signal mutex dropped, before             *)
(*                beginInternalStopLocked                                *)
(*   "stopNotify" RunInterrupt, before the parent is told of the stop    *)
(*   "deliver"    RunInterrupt dequeued a signal, mutex dropped, before  *)
(*                ThreadDeliverSignal                                    *)
(*   "sigwait"    blocked in Sigtimedwait                                *)
(*   "exit"       in the exit path                                       *)
(* A thread whose stop is set does not run its task loop.                *)

Running(t) == th[t].stop = NoStop

\* the run loop takes a pending interrupt: Interrupted(true), RunInterrupt
EnterInterrupt(t) ==
    /\ pc[t] = "app" /\ Running(t)
    /\ th[t].interrupted
    /\ th' = [th EXCEPT ![t].interrupted = FALSE]
    /\ pc' = [pc EXCEPT ![t] = "intr"]
    /\ last' = Step
    /\ UNCHANGED <<tg, sh, loc, ustack, parent, budget, hist, notVars, restVars>>

\* signalStop on the leader's parent: the parent is sent SIGCHLD with code
signalStop(p, code) ==
    IF code = CLD_STOPPED THEN [p EXCEPT !.stopped = @ + 1]
    ELSE [p EXCEPT !.continued = @ + 1]

\* RunInterrupt: "Did we just leave a group stop?"
RunInterrupt_ContNotify(t) ==
    /\ pc[t] = "intr" /\ Running(t)
    /\ tg.groupContNotify
    /\ tg' = [tg EXCEPT !.groupContNotify = FALSE]
    /\ loc' = [loc EXCEPT ![t].sig = tg.groupStopSignal,
                          ![t].intr = tg.groupContInterrupted]
    /\ pc' = [pc EXCEPT ![t] = "contNotify"]
    /\ last' = Step
    /\ UNCHANGED <<th, sh, ustack, parent, budget, hist, notVars, restVars>>

RunInterrupt_NotifyCont(t) ==
    /\ pc[t] = "contNotify"
    /\ LET code == IF loc[t].intr THEN CLD_STOPPED ELSE CLD_CONTINUED
       IN /\ parent' = IF parent.exists THEN signalStop(parent, code) ELSE parent
          /\ hist' = IF ~parent.exists THEN hist
                     ELSE IF hist.contDue[code] > 0
                     THEN [hist EXCEPT !.contDue[code] = @ - 1]
                     ELSE [hist EXCEPT !.contExtra = @ + 1]
    /\ pc' = [pc EXCEPT ![t] = "intr"]
    /\ loc' = [loc EXCEPT ![t] = InitLoc]
    /\ last' = Step
    /\ UNCHANGED <<th, tg, sh, ustack, budget, notVars, restVars>>

\* RunInterrupt: "Do we need to enter a group stop or related ptrace stop?"
RunInterrupt_Stop(t) ==
    /\ pc[t] = "intr" /\ Running(t)
    /\ ~tg.groupContNotify
    /\ th[t].groupStopPending \/ th[t].trapStopPending \/ th[t].trapNotifyPending
    /\ LET s0 == St
           r == IF th[t].groupStopPending
                THEN participateGroupStopLocked(
                       [s0 EXCEPT !.th[t].groupStopPending = FALSE], t)
                ELSE [ret |-> FALSE, st |-> s0]
           s1 == [r.st EXCEPT !.th[t].trapStopPending = FALSE,
                              !.th[t].trapNotifyPending = FALSE]
       IN /\ Commit(s1)
          /\ loc' = [loc EXCEPT ![t].sig = tg.groupStopSignal,
                                ![t].notifyParent = r.ret]
    /\ pc' = [pc EXCEPT ![t] = "stopBegin"]
    /\ last' = Step
    /\ UNCHANGED <<ustack, parent, budget, hist, notVars, restVars>>

RunInterrupt_BeginStop(t) ==
    /\ pc[t] = "stopBegin"
    /\ LET notifyParent == loc[t].notifyParent /\ parent.exists
           s1 == IF ~killedLocked(St, t) THEN beginInternalStopLocked(St, t) ELSE St
       IN /\ Commit(s1)
          /\ loc' = [loc EXCEPT ![t] = IF notifyParent
                                        THEN [InitLoc EXCEPT !.sig = loc[t].sig,
                                                             !.notifyParent = TRUE]
                                        ELSE InitLoc]
          /\ pc' = [pc EXCEPT ![t] = IF notifyParent THEN "stopNotify" ELSE "intr"]
    /\ last' = Step
    /\ UNCHANGED <<ustack, parent, budget, hist, notVars, restVars>>

RunInterrupt_NotifyStop(t) ==
    /\ pc[t] = "stopNotify"
    /\ parent' = signalStop(parent, CLD_STOPPED)
    /\ pc' = [pc EXCEPT ![t] = "intr"]
    /\ loc' = [loc EXCEPT ![t] = InitLoc]
    /\ last' = Step
    /\ UNCHANGED <<th, tg, sh, ustack, budget, hist, notVars, restVars>>

\* DequeAct: the action of sig as it is when the signal is dequeued
DequeAct(s, sig) == s.sh[sig]

\* a RunInterrupt that looks for pending signals before it looks at the
\* thread's pending stops
RunInterrupt_Dequeue_BeforeStop(t) ==
    /\ pc[t] = "intr" /\ Running(t)
    /\ ~tg.groupContNotify
    /\ LET r == dequeueSignalLocked(St, t, th[t].signalMask)
       IN IF r.sig = 0
          THEN /\ pc' = [pc EXCEPT ![t] = "app"]
               /\ last' = Op("RunInterrupt", t, 0, "RunApp")
               /\ UNCHANGED <<th, tg, sh, loc>>
          ELSE /\ Commit(IF r.sig \in STOP_SIGNALS
                         THEN [r.st EXCEPT !.tg.groupStopDequeued = TRUE]
                         ELSE r.st)
               /\ loc' = [loc EXCEPT ![t].info = r.sig,
                                     ![t].act = DequeAct(r.st, r.sig)]
               /\ pc' = [pc EXCEPT ![t] = "deliver"]
               /\ last' = Step
    /\ UNCHANGED <<ustack, parent, budget, hist, notVars, restVars>>

\* RunInterrupt: "Are there signals pending?"
RunInterrupt_Dequeue(t) ==
    /\ pc[t] = "intr" /\ Running(t)
    /\ ~tg.groupContNotify
    /\ ~(th[t].groupStopPending \/ th[t].trapStopPending \/ th[t].trapNotifyPending)
    /\ LET r == dequeueSignalLocked(St, t, th[t].signalMask)
       IN IF r.sig = 0
          THEN /\ pc' = [pc EXCEPT ![t] = "app"]
               /\ last' = Op("RunInterrupt", t, 0, "RunApp")
               /\ UNCHANGED <<th, tg, sh, loc>>
          ELSE /\ Commit(IF r.sig \in STOP_SIGNALS
                         THEN [r.st EXCEPT !.tg.groupStopDequeued = TRUE]
                         ELSE r.st)
               /\ loc' = [loc EXCEPT ![t].info = r.sig,
                                     ![t].act = DequeAct(r.st, r.sig)]
               /\ pc' = [pc EXCEPT ![t] = "deliver"]
               /\ last' = Step
    /\ UNCHANGED <<ustack, parent, budget, hist, notVars, restVars>>

\* SignalStack::SetOnStack: the stack is marked as the one in use
SetOnStack(stack) == [stack EXCEPT !.onStack = TRUE]

\* Task::SetSignalStack
SetSignalStack(s, t, alt) == [s EXCEPT !.th[t].signalStack = alt]

\* deliverSignalToHandler up to the pushes on the user stack: the UContext
\* (the saved mask, the signal stack and the interrupted EFLAGS), and the
\* state after SetOnStack and SetSignalMask(newMask)
deliverSignalToHandler(s, t, signo, sigAct) ==
    LET s0 == IF "ONSTACK" \in sigAct.flags /\ s.th[t].signalStack.enable
              THEN [s EXCEPT !.th[t].signalStack = SetOnStack(@)]
              ELSE s
        have == s0.th[t].haveSavedSignalMask
        mask == IF have THEN s0.th[t].savedSignalMask ELSE s0.th[t].signalMask
        s1 == IF have THEN [s0 EXCEPT !.th[t].haveSavedSignalMask = FALSE] ELSE s0
        newMask == s1.th[t].signalMask \cup sigAct.mask
                   \cup (IF "NODEFER" \in sigAct.flags THEN {} ELSE {signo})
    IN [oldmask |-> mask, Stack |-> s0.th[t].signalStack,
        eflags |-> s.th[t].eflags,
        st |-> setSignalMaskLocked(s1, t, newMask)]

\* the frame on the user stack: the UContext, and for reference the mask and
\* the signal stack the thread had when the delivery began
Frame(d, t) ==
    [oldmask |-> d.oldmask, Stack |-> d.Stack, eflags |-> d.eflags,
     entryMask |-> th[t].signalMask, entryStack |-> th[t].signalStack]

\* ThreadDeliverSignal.  pushOk: whether the pushes on the user stack succeed.
ThreadDeliverSignal(t, pushOk) ==
    /\ pc[t] = "deliver"
    /\ LET info == loc[t].info
           act == loc[t].act
           sigact == ComputeAction(info, act)
       IN \/ /\ sigact \in {TERM, CORE}
             /\ pushOk
             /\ Commit(PrepareGroupExit(St, t, info))
             /\ pc' = [pc EXCEPT ![t] = "exit"]
             /\ last' = Op("ThreadDeliverSignal", t, info, "RunExit")
             /\ UNCHANGED ustack
          \/ /\ sigact = STOP
             /\ pushOk
             /\ Commit(initiateGroupStop(St, t, info))
             /\ pc' = [pc EXCEPT ![t] = "intr"]
             /\ last' = Op("ThreadDeliverSignal", t, info, "RunInterrupt")
             /\ UNCHANGED ustack
          \/ /\ sigact = IGNORE
             /\ pushOk
             /\ pc' = [pc EXCEPT ![t] = "intr"]
             /\ last' = Op("ThreadDeliverSignal", t, info, "RunInterrupt")
             /\ UNCHANGED <<th, tg, sh, ustack>>
          \/ /\ sigact = HANDLER
             /\ pushOk
             /\ LET d == deliverSignalToHandler(St, t, info, act)
                IN /\ Commit([d.st EXCEPT !.th[t].eflags = HandlerEflags])
                   /\ ustack' = [ustack EXCEPT ![t] =
                                   Append(@, Frame(d, t))]
             /\ pc' = [pc EXCEPT ![t] = "app"]
             /\ last' = Op("ThreadDeliverSignal", t, info, "RunSyscallRet")
          \/ /\ sigact = HANDLER
             /\ ~pushOk
             /\ LET d == deliverSignalToHandler(St, t, info, act)
                    s1 == forceSignal(d.st, t, SIGSEGV, info = SIGSEGV)
                    r == sendSignalLocked(s1, t, SIGSEGV, FALSE)
                IN Commit(r.st)
             /\ pc' = [pc EXCEPT ![t] = "intr"]
             /\ last' = Op("ThreadDeliverSignal", t, info, "EFAULT")
             /\ UNCHANGED ustack
    /\ loc' = [loc EXCEPT ![t] = InitLoc]
    /\ UNCHANGED <<parent, budget, hist, notVars, restVars>>

\* The exit path: the transition from TaskExitNone to TaskExitInitiated sets
\* every bit of the signal mask; the exited task is later reaped
\* (TaskExitDead).
TaskExit(t) ==
    /\ pc[t] = "exit"
    /\ th[t].exitState < TaskExitDead
    /\ Commit(IF th[t].exitState = TaskExitNone
              THEN setSignalMaskLocked(
                     [St EXCEPT !.th[t].exitState = TaskExitInitiated], t, AllSignals)
              ELSE [St EXCEPT !.th[t].exitState = TaskExitDead])
    /\ last' = Step
    /\ UNCHANGED <<pc, loc, ustack, parent, budget, hist, notVars, restVars>>

----------------------------------------------------------------------------
(* System calls of a running thread *)

\* the masks user code passes (as 64-bit words, any bit may be set)
MaskChoices == {{}, {SIGUSR1}, {SIGKILL, SIGSTOP, SIGCONT, SIGTSTP}, AllSignals}

\* Thread::SetSignalMask
SetSignalMask(t, mask) ==
    /\ pc[t] = "app" /\ Running(t)
    /\ budget.maskops > 0
    /\ Commit(setSignalMaskLocked(St, t, mask))
    /\ last' = OpArg("SetSignalMask", t, 0, "Ok", mask)
    /\ budget' = [budget EXCEPT !.maskops = @ - 1]
    /\ UNCHANGED <<pc, loc, ustack, parent, hist, notVars, restVars>>

\* the signal sets and timeouts user code passes to sigtimedwait
WaitSets == {{SIGUSR1}, {SIGKILL, SIGCONT, SIGTSTP}}
Timeouts == {0, 1}

\* Thread::Sigtimedwait, first locked block
Sigtimedwait(t, set, timeout) ==
    /\ pc[t] = "app" /\ Running(t)
    /\ budget.maskops > 0
    /\ budget' = [budget EXCEPT !.maskops = @ - 1]
    /\ LET mask == AllSignals \ (set \ UNBLOCKED_SIGNALS)
           r == dequeueSignalLocked(St, t, mask)
       IN IF r.sig # 0
          THEN /\ Commit(r.st)
               /\ last' = OpArg("Sigtimedwait", t, r.sig, "Ok", th[t].signalMask)
               /\ UNCHANGED <<pc, loc>>
          ELSE IF timeout = 0
          THEN /\ last' = OpArg("Sigtimedwait", t, 0, "EAGAIN", th[t].signalMask)
               /\ UNCHANGED <<th, tg, sh, pc, loc>>
          ELSE /\ LET signalMask == th[t].signalMask
                      s1 == [St EXCEPT !.th[t].realSignalMask = signalMask]
                  IN Commit(setSignalMaskLocked(s1, t, signalMask \cap mask))
               /\ loc' = [loc EXCEPT ![t].mask = mask,
                                     ![t].entryMask = th[t].signalMask]
               /\ pc' = [pc EXCEPT ![t] = "sigwait"]
               /\ last' = Step
    /\ UNCHANGED <<ustack, parent, hist, notVars, restVars>>

\* a wake-up of Sigtimedwait that leaves the temporary mask installed
SigtimedwaitWake_NoRestore(t, err) ==
    /\ pc[t] = "sigwait"
    /\ err = "ETIMEDOUT" \/ (err = "EINTR" /\ th[t].interrupted)
    /\ LET r == dequeueSignalLocked(St, t, loc[t].mask)
       IN /\ Commit(r.st)
          /\ last' = OpArg("SigtimedwaitWake", t, r.sig,
                           IF r.sig # 0 THEN "Ok"
                           ELSE IF err = "ETIMEDOUT" THEN "EAGAIN" ELSE err,
                           loc[t].entryMask)
    /\ pc' = [pc EXCEPT ![t] = "app"]
    /\ loc' = [loc EXCEPT ![t] = InitLoc]
    /\ UNCHANGED <<ustack, parent, budget, hist, notVars, restVars>>

\* Thread::Sigtimedwait, the block returned (err: "ETIMEDOUT", or the
\* blocker's error for an interrupt) and the second locked block ran
SigtimedwaitWake(t, err) ==
    /\ pc[t] = "sigwait"
    /\ err = "ETIMEDOUT" \/ (err = "EINTR" /\ th[t].interrupted)
    /\ \E s1 \in {setSignalMaskLocked(St, t, th[t].realSignalMask)} :
       \E r \in {dequeueSignalLocked([s1 EXCEPT !.th[t].realSignalMask = {}],
                                     t, loc[t].mask)} :
          /\ Commit(r.st)
          /\ last' = OpArg("SigtimedwaitWake", t, r.sig,
                           IF r.sig # 0 THEN "Ok"
                           ELSE IF err = "ETIMEDOUT" THEN "EAGAIN" ELSE err,
                           loc[t].entryMask)
    /\ pc' = [pc EXCEPT ![t] = "app"]
    /\ loc' = [loc EXCEPT ![t] = InitLoc]
    /\ UNCHANGED <<ustack, parent, budget, hist, notVars, restVars>>

HasSignal(s, t) ==
    (pendingSet(s.th[t].pendingSignals) \cup pendingSet(s.tg.pendingSignals))
        \ s.th[t].signalMask # {}

\* Task::SignalReturn.  uc: the UContext user code left on the stack; the
\* frame a handler delivery pushed, or any other.
SignalReturn(t, oldmaskWord) ==
    /\ pc[t] = "app" /\ Running(t)
    /\ Len(ustack[t]) > 0
    /\ \/ oldmaskWord = ustack[t][Len(ustack[t])].oldmask
       \/ /\ budget.maskops > 0
          /\ oldmaskWord # ustack[t][Len(ustack[t])].oldmask
    /\ budget' = IF oldmaskWord = ustack[t][Len(ustack[t])].oldmask THEN budget
                 ELSE [budget EXCEPT !.maskops = @ - 1]
    /\ ustack' = [ustack EXCEPT ![t] = SubSeq(@, 1, Len(@) - 1)]
    /\ LET uc == ustack[t][Len(ustack[t])]
           cEflags == th[t].eflags
           nEflags == uc.eflags
           s0 == SetSignalStack(St, t, uc.Stack)
           oldMask == oldmaskWord \ UNBLOCKED_SIGNALS
           s1 == setSignalMaskLocked(s0, t, oldMask)
           s2 == [s1 EXCEPT !.th[t].eflags = (cEflags \ EFLAGS_RESTOREABLE)
                                 \cup (nEflags \cap EFLAGS_RESTOREABLE)]
       IN Commit(IF HasSignal(s2, t) THEN interruptSelf(s2, t) ELSE s2)
    /\ last' = OpArg("SignalReturn", t, 0, "RunApp", oldmaskWord)
    /\ UNCHANGED <<pc, loc, parent, hist, notVars, restVars>>

\* Thread::SetSavedSignalMask, as the system calls that wait under a
\* temporary mask call it
SetSavedSignalMask(t, mask) ==
    /\ pc[t] = "app" /\ Running(t)
    /\ budget.maskops > 0
    /\ budget' = [budget EXCEPT !.maskops = @ - 1]
    /\ Commit([St EXCEPT !.th[t].savedSignalMask = mask,
                         !.th[t].haveSavedSignalMask = TRUE])
    /\ last' = OpArg("SetSavedSignalMask", t, 0, "Ok", mask)
    /\ UNCHANGED <<pc, loc, ustack, parent, hist, notVars, restVars>>

\* sigaltstack: user code sets or disables its alternate signal stack
SigAltStack(t, enable) ==
    /\ pc[t] = "app" /\ Running(t)
    /\ th[t].signalStack.enable # enable
    /\ Commit(SetSignalStack(St, t, [enable |-> enable, onStack |-> FALSE]))
    /\ last' = Op("SigAltStack", t, 0, "Ok")
    /\ UNCHANGED <<pc, loc, ustack, parent, budget, hist, notVars, restVars>>

\* user code runs and leaves fl in EFLAGS
EflagsChoices == {{"R1"}, {"R1", "CF"}, {"R1", "ID"}}
UserRun(t, fl) ==
    /\ pc[t] = "app" /\ Running(t)
    /\ th[t].eflags # fl
    /\ Commit([St EXCEPT !.th[t].eflags = fl])
    /\ last' = Step
    /\ UNCHANGED <<pc, loc, ustack, parent, budget, hist, notVars, restVars>>

\* the actions user code installs
ActChoices ==
    {[handler |-> SIGNAL_ACT_IGNORE, mask |-> {}, flags |-> {}],
     [handler |-> UserHandler, mask |-> {SIGKILL, SIGUSR1}, flags |-> {}],
     [handler |-> UserHandler, mask |-> {}, flags |-> {"NODEFER"}]}
ActSigs == {SIGKILL, SIGUSR1, SIGTSTP}

\* ThreadGroup::SetSignalAct(sig, Some(act))
SetSignalAct(sig, newAct) ==
    /\ budget.actops > 0
    /\ budget' = [budget EXCEPT !.actops = @ - 1]
    /\ IF ~IsValid(sig) \/ sig = SIGKILL \/ sig = SIGSTOP
       THEN /\ last' = Op("SetSignalAct", 0, sig, "EINVAL")
            /\ UNCHANGED <<th, tg, sh>>
       ELSE /\ LET act == [newAct EXCEPT !.mask = @ \ UNBLOCKED_SIGNALS]
                   s1 == [St EXCEPT !.sh[sig] = act]
               IN Commit(IF ComputeAction(sig, act) = SIGNAL_ACT_IGNORE
                         THEN discardSpecificLocked(s1, sig)
                         ELSE s1)
            /\ last' = Op("SetSignalAct", 0, sig, "Ok")
    /\ UNCHANGED <<pc, loc, ustack, parent, hist, notVars, restVars>>

----------------------------------------------------------------------------
(* The host-FD notifier (GUEST_NOTIFIER) and the submission ring *)

\* host file descriptors the model uses
NumFds == 1
\* threads that call the notifier concurrently
NumCallers == 2

Fds == 1..NumFds
Callers == 1..NumCallers

EVENT_IN == 1
EVENT_OUT == 4
\* the event masks the model uses: none, readable, readable or writable
EventMasks == {0, EVENT_IN, EVENT_IN + EVENT_OUT}

NoEntry == [present |-> FALSE]
None == 0 - 1
GuestFdInfo(mask, userdata) == [present |-> TRUE, mask |-> mask, userdata |-> userdata]

\* The notifier state the operations transform: the map, the ring, and the
\* ring operations the call has issued.
NSt == [fdMap |-> fdMap, ring |-> ring, ops |-> <<>>]

\* AsyncPollAdd(fd, mask): a submission in a free slot of the ring; its
\* index is the userdata
FreeIdx(n) ==
    CHOOSE i \in 0..Cardinality(n.ring) :
        /\ \A e \in n.ring : e.idx # i
        /\ \A j \in 0..Cardinality(n.ring) : (\A e \in n.ring : e.idx # j) => i <= j
AsyncPollAdd(n, fd, mask) ==
    LET idx == FreeIdx(n)
    IN [idx |-> idx,
        st |-> [n EXCEPT !.ring = @ \cup {[idx |-> idx, fd |-> fd, mask |-> mask]},
                         !.ops = Append(@, <<"AsyncPollAdd", fd, mask>>)]]
\* AsyncPollRemove(userdata)
AsyncPollRemove(n, idx) ==
    [n EXCEPT !.ring = {e \in @ : e.idx # idx},
              !.ops = Append(@, <<"AsyncPollRemove", idx>>)]

\* a Waitfd that submits the new poll without removing the old one
Waitfd_NoRemove(n, fd, mask) ==
    LET fi == n.fdMap[fd]
    IN IF ~fi.present THEN [ret |-> "panic", st |-> n]
       ELSE IF fi.mask = mask THEN [ret |-> "Ok", st |-> n]
       ELSE
         LET a == AsyncPollAdd(n, fd, mask)
             n2 == IF mask # 0
                   THEN [a.st EXCEPT !.fdMap[fd].userdata = a.idx]
                   ELSE n
         IN [ret |-> "Ok", st |-> [n2 EXCEPT !.fdMap[fd].mask = mask]]

\* a Waitfd that submits the new poll before it removes the old one
Waitfd_AddFirst(n, fd, mask) ==
    LET fi == n.fdMap[fd]
    IN IF ~fi.present THEN [ret |-> "panic", st |-> n]
       ELSE IF fi.mask = mask THEN [ret |-> "Ok", st |-> n]
       ELSE IF fi.mask # 0 /\ fi.userdata = None THEN [ret |-> "panic", st |-> n]
       ELSE
         LET a == AsyncPollAdd(n, fd, mask)
             n1 == IF mask # 0
                   THEN [a.st EXCEPT !.fdMap[fd].userdata = a.idx]
                   ELSE [n EXCEPT !.fdMap[fd].userdata = None]
             n2 == IF fi.mask # 0 THEN AsyncPollRemove(n1, fi.userdata) ELSE n1
         IN [ret |-> "Ok", st |-> [n2 EXCEPT !.fdMap[fd].mask = mask]]

\* a Waitfd that re-submits even when the mask is unchanged
Waitfd_NoShortcut(n, fd, mask) ==
    LET fi == n.fdMap[fd]
    IN IF ~fi.present THEN [ret |-> "panic", st |-> n]
       ELSE IF fi.mask # 0 /\ fi.userdata = None THEN [ret |-> "panic", st |-> n]
       ELSE
         LET n1 == IF fi.mask # 0
                   THEN [AsyncPollRemove(n, fi.userdata)
                           EXCEPT !.fdMap[fd].userdata = None]
                   ELSE n
             a == AsyncPollAdd(n1, fd, mask)
             n2 == IF mask # 0
                   THEN [a.st EXCEPT !.fdMap[fd].userdata = a.idx]
                   ELSE n1
         IN [ret |-> "Ok", st |-> [n2 EXCEPT !.fdMap[fd].mask = mask]]

\* Notifier::Waitfd.  Returns "Ok" or "panic", and the state.
Waitfd(n, fd, mask) ==
    LET fi == n.fdMap[fd]
    IN IF ~fi.present THEN [ret |-> "panic", st |-> n]
       ELSE IF fi.mask = mask THEN [ret |-> "Ok", st |-> n]
       ELSE IF fi.mask # 0 /\ fi.userdata = None THEN [ret |-> "panic", st |-> n]
       ELSE
         LET n1 == IF fi.mask # 0
                   THEN [AsyncPollRemove(n, fi.userdata)
                           EXCEPT !.fdMap[fd].userdata = None]
                   ELSE n
             a == AsyncPollAdd(n1, fd, mask)
             n2 == IF mask # 0
                   THEN [a.st EXCEPT !.fdMap[fd].userdata = a.idx]
                   ELSE n1
         IN [ret |-> "Ok", st |-> [n2 EXCEPT !.fdMap[fd].mask = mask]]

\* Notifier::AddFD
AddFD(n, fd) ==
    IF n.fdMap[fd].present THEN [ret |-> "panic", st |-> n]
    ELSE [ret |-> "Ok", st |-> [n EXCEPT !.fdMap[fd] = GuestFdInfo(0, None)]]

\* Notifier::RemoveFD
RemoveFD(n, fd) ==
    LET fi == n.fdMap[fd]
        n1 == [n EXCEPT !.fdMap[fd] = NoEntry]
    IN IF ~fi.present THEN [ret |-> "panic", st |-> n]
       ELSE [ret |-> "Ok",
             st |-> IF fi.userdata # None THEN AsyncPollRemove(n1, fi.userdata)
                    ELSE n1]

\* the record of a notifier operation: prior is the entry's mask before it,
\* ud the entry's userdata before it, ops the ring operations it issued, rep
\* whether it repeats the operation before it, fresh the fds whose queue mask
\* and entry are as the UpdateFD that started last found them
NOp(o, fd, mask, prior, ret, ops) ==
    [op |-> o, fd |-> fd, mask |-> mask, prior |-> prior, ret |-> ret, ops |-> ops,
     rep |-> FALSE, ud |-> 0 - 1, fresh |-> nlast.fresh]

\* no notifier operation has run
NoNOp ==
    [op |-> "none", fd |-> 0, mask |-> 0, prior |-> 0, ret |-> "none", ops |-> <<>>,
     rep |-> FALSE, ud |-> 0 - 1, fresh |-> {}]

InitNotifier ==
    /\ fdMap = [fd \in Fds |-> NoEntry]
    /\ qmask = [fd \in Fds |-> 0]
    /\ ring = {}
    /\ npc = [c \in Callers |-> "idle"]
    /\ nloc = [c \in Callers |-> [fd |-> 0, mask |-> 0]]
    /\ nlast = NoNOp

Panicked == nlast.ret = "panic"
PriorMask(fd) == IF fdMap[fd].present THEN fdMap[fd].mask ELSE None
PriorUserdata(fd) == IF fdMap[fd].present THEN fdMap[fd].userdata ELSE None

NCommit(r) == fdMap' = r.st.fdMap /\ ring' = r.st.ring

\* a caller adds fd to the notifier
DoAddFD(c, fd) ==
    /\ ~Panicked /\ npc[c] = "idle"
    /\ LET r == AddFD(NSt, fd)
       IN /\ NCommit(r)
          /\ nlast' = [NOp("AddFD", fd, 0, None, r.ret, r.st.ops)
                          EXCEPT !.fresh = @ \ {fd}]
    /\ UNCHANGED <<qmask, npc, nloc, sigVars, last, budget, hist, restVars>>

\* a caller removes fd from the notifier
DoRemoveFD(c, fd) ==
    /\ ~Panicked /\ npc[c] = "idle"
    /\ LET r == RemoveFD(NSt, fd)
       IN /\ NCommit(r)
          /\ nlast' = [NOp("RemoveFD", fd, 0, PriorMask(fd), r.ret, r.st.ops)
                          EXCEPT !.ud = PriorUserdata(fd), !.fresh = @ \ {fd}]
    /\ UNCHANGED <<qmask, npc, nloc, sigVars, last, budget, hist, restVars>>

\* Notifier::UpdateFD, the block that reads the queue's mask under the lock
UpdateFD_Read(c, fd) ==
    /\ ~Panicked /\ npc[c] = "idle"
    /\ IF ~fdMap[fd].present
       THEN /\ nlast' = NOp("UpdateFD", fd, 0, None, "Ok", <<>>)
            /\ UNCHANGED <<npc, nloc>>
       ELSE /\ nloc' = [nloc EXCEPT ![c] = [fd |-> fd, mask |-> qmask[fd]]]
            /\ npc' = [npc EXCEPT ![c] = "waitfd"]
            /\ nlast' = [nlast EXCEPT !.fresh = @ \cup {fd}]
    /\ UNCHANGED <<fdMap, qmask, ring, sigVars, last, budget, hist, restVars>>

\* Notifier::UpdateFD, the call of Waitfd(fd, mask) that ends it
UpdateFD_Waitfd(c) ==
    /\ ~Panicked /\ npc[c] = "waitfd"
    /\ LET fd == nloc[c].fd
           r == Waitfd(NSt, fd, nloc[c].mask)
       IN /\ NCommit(r)
          /\ nlast' = [NOp("Waitfd", fd, nloc[c].mask, PriorMask(fd), r.ret, r.st.ops)
                          EXCEPT !.rep = /\ nlast.op = "Waitfd" /\ nlast.ret = "Ok"
                                         /\ nlast.fd = fd /\ nlast.mask = nloc[c].mask,
                                 !.ud = PriorUserdata(fd)]
    /\ npc' = [npc EXCEPT ![c] = "idle"]
    /\ nloc' = [nloc EXCEPT ![c] = [fd |-> 0, mask |-> 0]]
    /\ UNCHANGED <<qmask, sigVars, last, budget, hist, restVars>>

\* Notifier::Notify: the host reports events on fd; the queue is notified
DoNotify(fd, mask) ==
    /\ ~Panicked
    /\ nlast' = NOp("Notify", fd, mask, None,
                    IF fdMap[fd].present THEN "notified" ELSE "Ok", <<>>)
    /\ UNCHANGED <<fdMap, qmask, ring, npc, nloc, sigVars, last, budget, hist, restVars>>

\* the waiters of fd's queue change: queue.Events() becomes mask
SetQueueMask(fd, mask) ==
    /\ ~Panicked
    /\ qmask[fd] # mask
    /\ qmask' = [qmask EXCEPT ![fd] = mask]
    /\ nlast' = [NOp("SetQueueMask", fd, 0, None, "Ok", <<>>)
                    EXCEPT !.fresh = @ \ {fd}]
    /\ UNCHANGED <<fdMap, ring, npc, nloc, sigVars, last, budget, hist, restVars>>

NextNotifier ==
    \/ \E c \in Callers, fd \in Fds : DoAddFD(c, fd)
    \/ \E c \in Callers, fd \in Fds : DoRemoveFD(c, fd)
    \/ \E c \in Callers, fd \in Fds : UpdateFD_Read(c, fd)
    \/ \E c \in Callers : UpdateFD_Waitfd(c)
    \/ \E fd \in Fds : DoNotify(fd, EVENT_IN)
    \/ \E fd \in Fds, m \in EventMasks : SetQueueMask(fd, m)

----------------------------------------------------------------------------
(* File (qkernel/src/fs/file.rs): a handle shared by several tasks.  The  *)
(* offset is a QLock<i64>; an operation that takes the offset lock holds  *)
(* it, across the file operation it calls, until it returns.              *)

\* tasks that use the file concurrently
NumFileTasks == 2
\* offset-lock acquisitions in one behaviour
MaxFileOps == 3
\* the largest byte count a read or write returns
MaxBytes == 2

FileTasks == 1..NumFileTasks

\* Option<FileAsync>: None, or an owner
NoOwner == 0
Owners == {1, 2}

\* SettableFileFlags, the flags SetFlags copies into FileFlags
DefaultFlags ==
    [Direct |-> FALSE, NonBlocking |-> FALSE, Append |-> FALSE, Async |-> FALSE]

\* Result<i64> of a file operation: Ok(n) or Err
Err == [ok |-> FALSE, n |-> 0]
Ok(n) == [ok |-> TRUE, n |-> n]
IoResults == {Err} \cup {Ok(n) : n \in 0..MaxBytes}
\* the offsets fops.Seek and fops.ReadDir return, the lengths fops.Append returns
SeekResults == {Err, Ok(0), Ok(1)}
AppendLens == {1, 3}
\* the offsets the callers of Preadv and Pwritev pass
CallerOffsets == {0, 2}

\* File::New: offset 0, no async owner; one handle per file task
FileNew(seekable, flags) ==
    [offset |-> 0, lock |-> 0, seekable |-> seekable, flags |-> flags,
     async |-> NoOwner, registered |-> FALSE,
     strong |-> NumFileTasks, locks |-> TRUE, cleanups |-> 0]

\* the record of a File operation that returned: the stored offset when it
\* got the offset lock, the offset it gave the file operation, the result,
\* its argument, what it returned, the Register/Unregister calls it made and
\* whether it repeated the call before it
FOp(o, c, before, at, res) ==
    [op |-> o, c |-> c, before |-> before, at |-> at, ok |-> res.ok, n |-> res.n,
     arg |-> DefaultFlags, newAsync |-> NoOwner, ret |-> NoOwner, calls |-> <<>>,
     rep |-> FALSE, off |-> 0, len |-> 0]
FNoOp == FOp("none", 0, 0, 0, Err)

InitFile(seekable, flags) ==
    /\ file = FileNew(seekable, flags)
    /\ fpc = [c \in FileTasks |-> "idle"]
    /\ floc = [c \in FileTasks |-> [entry |-> 0, handles |-> 1]]
    /\ flast = FNoOp
    /\ fhist = [base |-> 0, sum |-> 0, starts |-> {}, dup |-> FALSE, ops |-> 0,
                seekBase |-> 0, returned |-> 0]

OffsetOps == {"Seek", "ReadDir", "Readv", "Writev"}
\* the operations in flight between taking and releasing the offset lock
InFlight == {c \in FileTasks : fpc[c] \in OffsetOps}

\* self.offset.Lock(task)? returned the guard: the lock was free, or the task
\* was suspended until it was
OffsetLock(c, op) ==
    /\ fpc[c] = "idle" /\ floc[c].handles > 0
    /\ fhist.ops < MaxFileOps
    /\ op \in {"Seek", "ReadDir"} \/ file.seekable
    /\ file.lock = 0
    /\ file' = [file EXCEPT !.lock = c]
    /\ fpc' = [fpc EXCEPT ![c] = op]
    /\ floc' = [floc EXCEPT ![c].entry = file.offset]
    /\ fhist' = [fhist EXCEPT !.ops = @ + 1]
    /\ UNCHANGED <<flast, nonFileVars>>

\* self.offset.Lock(task)? returned an error: the operation returns it
OffsetLockFail(c, op) ==
    /\ fpc[c] = "idle" /\ floc[c].handles > 0
    /\ op \in {"Seek", "ReadDir"} \/ file.seekable
    /\ flast' = FOp(op, c, file.offset, file.offset, Err)
    /\ UNCHANGED <<file, fpc, floc, fhist, nonFileVars>>

\* the history of a Seek or ReadDir that set the offset to off
Rebase(off) ==
    [fhist EXCEPT !.base = off, !.sum = 0, !.starts = {},
                  !.seekBase = off, !.returned = 0]
\* the history of an appending write that returned res.n bytes and the length len
Appended(len, res) ==
    [fhist EXCEPT !.base = len, !.sum = 0, !.starts = {},
                  !.returned = @ + (IF res.n > 0 THEN res.n ELSE 0)]
\* the history of a read or write that started at current and returned n
Advance(current, res) ==
    IF res.ok /\ res.n > 0
    THEN [fhist EXCEPT !.sum = @ + res.n, !.returned = @ + res.n,
                       !.dup = @ \/ current \in fhist.starts,
                       !.starts = @ \cup {current}]
    ELSE fhist

\* File::Seek, from the lock to the return
Seek(c, res) ==
    /\ fpc[c] = "Seek"
    /\ LET current == file.offset
       IN /\ file' = IF res.ok THEN [file EXCEPT !.offset = res.n, !.lock = 0]
                     ELSE [file EXCEPT !.lock = 0]
          /\ flast' = FOp("Seek", c, floc[c].entry, current, res)
          /\ fhist' = IF res.ok THEN Rebase(res.n) ELSE fhist
    /\ fpc' = [fpc EXCEPT ![c] = "idle"]
    /\ floc' = [floc EXCEPT ![c].entry = 0]
    /\ UNCHANGED <<nonFileVars>>

\* File::ReadDir, from the lock to the return
ReadDir(c, res) ==
    /\ fpc[c] = "ReadDir"
    /\ LET current == file.offset
       IN /\ file' = IF res.ok THEN [file EXCEPT !.offset = res.n, !.lock = 0]
                     ELSE [file EXCEPT !.lock = 0]
          /\ flast' = FOp("ReadDir", c, floc[c].entry, current, res)
          /\ fhist' = IF res.ok THEN Rebase(res.n) ELSE fhist
    /\ fpc' = [fpc EXCEPT ![c] = "idle"]
    /\ floc' = [floc EXCEPT ![c].entry = 0]
    /\ UNCHANGED <<nonFileVars>>

\* a Readv that stores the byte count as the offset
Readv_StoresCount(c, res) ==
    /\ fpc[c] = "Readv"
    /\ file' = IF res.ok /\ res.n > 0
               THEN [file EXCEPT !.offset = res.n, !.lock = 0]
               ELSE [file EXCEPT !.lock = 0]
    /\ flast' = FOp("Readv", c, floc[c].entry, file.offset, res)
    /\ fhist' = Advance(file.offset, res)
    /\ fpc' = [fpc EXCEPT ![c] = "idle"]
    /\ floc' = [floc EXCEPT ![c].entry = 0]
    /\ UNCHANGED <<nonFileVars>>

\* File::Readv: on a seekable file from the lock to the return, res being
\* what fops.ReadAt returns; on another file the whole call
Readv(c, res) ==
    \/ /\ fpc[c] = "Readv"
       /\ LET current == file.offset
          IN /\ file' = IF res.ok /\ res.n > 0
                        THEN [file EXCEPT !.offset = current + res.n, !.lock = 0]
                        ELSE [file EXCEPT !.lock = 0]
             /\ flast' = FOp("Readv", c, floc[c].entry, current, res)
             /\ fhist' = Advance(current, res)
       /\ fpc' = [fpc EXCEPT ![c] = "idle"]
       /\ floc' = [floc EXCEPT ![c].entry = 0]
       /\ UNCHANGED <<nonFileVars>>
    \/ /\ fpc[c] = "idle" /\ floc[c].handles > 0 /\ ~file.seekable
       /\ flast' = FOp("Readv", c, file.offset, 0, res)
       /\ UNCHANGED <<file, fpc, floc, fhist,
                      nonFileVars>>

\* a Writev that leaves the stored offset where it was
Writev_NoAdvance(c, res, len) ==
    /\ fpc[c] = "Writev"
    /\ file' = [file EXCEPT !.lock = 0]
    /\ flast' = FOp("Writev", c, floc[c].entry, file.offset, res)
    /\ fhist' = Advance(file.offset, res)
    /\ fpc' = [fpc EXCEPT ![c] = "idle"]
    /\ floc' = [floc EXCEPT ![c].entry = 0]
    /\ UNCHANGED <<nonFileVars>>

\* a Writev that adds the length Append returns to the stored offset
Writev_AddsLength(c, res, len) ==
    \/ /\ fpc[c] = "Writev"
       /\ LET current == file.offset
          IN IF file.flags.Append
             THEN /\ file' = IF res.ok THEN [file EXCEPT !.offset = current + len, !.lock = 0]
                             ELSE [file EXCEPT !.lock = 0]
                  /\ flast' = [FOp("WritevAppend", c, floc[c].entry, current, res)
                                  EXCEPT !.calls = <<"Append">>,
                                         !.len = IF res.ok THEN len ELSE 0]
                  /\ fhist' = IF res.ok THEN Appended(len, res) ELSE fhist
             ELSE /\ file' = IF res.ok /\ res.n > 0
                             THEN [file EXCEPT !.offset = current + res.n, !.lock = 0]
                             ELSE [file EXCEPT !.lock = 0]
                  /\ flast' = [FOp("Writev", c, floc[c].entry, current, res)
                                  EXCEPT !.calls = <<"WriteAt">>]
                  /\ fhist' = Advance(current, res)
       /\ fpc' = [fpc EXCEPT ![c] = "idle"]
       /\ floc' = [floc EXCEPT ![c].entry = 0]
       /\ UNCHANGED <<nonFileVars>>
    \/ /\ fpc[c] = "idle" /\ floc[c].handles > 0 /\ ~file.seekable
       /\ flast' = [FOp("Writev", c, file.offset, 0, res)
                       EXCEPT !.calls = <<"WriteAt">>]
       /\ UNCHANGED <<file, fpc, floc, fhist,
                      nonFileVars>>

\* File::Writev: on a seekable file from the lock to the return, res being
\* what fops.Append (with len) or fops.WriteAt returns; on another file the
\* whole call
Writev(c, res, len) ==
    \/ /\ fpc[c] = "Writev"
       /\ LET current == file.offset
          IN IF file.flags.Append
             THEN /\ file' = IF res.ok THEN [file EXCEPT !.offset = len, !.lock = 0]
                             ELSE [file EXCEPT !.lock = 0]
                  /\ flast' = [FOp("WritevAppend", c, floc[c].entry, current, res)
                                  EXCEPT !.calls = <<"Append">>,
                                         !.len = IF res.ok THEN len ELSE 0]
                  /\ fhist' = IF res.ok THEN Appended(len, res) ELSE fhist
             ELSE /\ file' = IF res.ok /\ res.n > 0
                             THEN [file EXCEPT !.offset = current + res.n, !.lock = 0]
                             ELSE [file EXCEPT !.lock = 0]
                  /\ flast' = [FOp("Writev", c, floc[c].entry, current, res)
                                  EXCEPT !.calls = <<"WriteAt">>]
                  /\ fhist' = Advance(current, res)
       /\ fpc' = [fpc EXCEPT ![c] = "idle"]
       /\ floc' = [floc EXCEPT ![c].entry = 0]
       /\ UNCHANGED <<nonFileVars>>
    \/ /\ fpc[c] = "idle" /\ floc[c].handles > 0 /\ ~file.seekable
       /\ flast' = [FOp("Writev", c, file.offset, 0, res)
                       EXCEPT !.calls = <<"WriteAt">>]
       /\ UNCHANGED <<file, fpc, floc, fhist,
                      nonFileVars>>

\* File::Preadv, the whole call: fops.ReadAt at the offset of the caller
Preadv(c, offset, res) ==
    /\ fpc[c] = "idle" /\ floc[c].handles > 0
    /\ flast' = [FOp("Preadv", c, 0, offset, res)
                    EXCEPT !.off = offset, !.calls = <<"ReadAt">>]
    /\ UNCHANGED <<file, fpc, floc, fhist, nonFileVars>>

\* a Pwritev that appends when the file has the Append flag, as Linux does
Pwritev_Appends(c, offset, res, len) ==
    /\ fpc[c] = "idle" /\ floc[c].handles > 0
    /\ flast' = IF file.flags.Append
                 THEN [FOp("Pwritev", c, 0, len, res)
                          EXCEPT !.off = offset, !.calls = <<"Append">>]
                 ELSE [FOp("Pwritev", c, 0, offset, res)
                          EXCEPT !.off = offset, !.calls = <<"WriteAt">>]
    /\ UNCHANGED <<file, fpc, floc, fhist, nonFileVars>>

\* File::Pwritev, the whole call: checkLimit never limits, then fops.WriteAt
\* at the offset of the caller; len is the length an Append would return
Pwritev(c, offset, res, len) ==
    /\ fpc[c] = "idle" /\ floc[c].handles > 0
    /\ flast' = [FOp("Pwritev", c, 0, offset, res)
                    EXCEPT !.off = offset, !.calls = <<"WriteAt">>]
    /\ UNCHANGED <<file, fpc, floc, fhist, nonFileVars>>

NextFile ==
    \/ \E c \in FileTasks, op \in OffsetOps : OffsetLock(c, op)
    \/ \E c \in FileTasks, op \in OffsetOps : OffsetLockFail(c, op)
    \/ \E c \in FileTasks, res \in SeekResults : Seek(c, res)
    \/ \E c \in FileTasks, res \in SeekResults : ReadDir(c, res)
    \/ \E c \in FileTasks, res \in IoResults : Readv(c, res)
    \/ \E c \in FileTasks, res \in IoResults, len \in AppendLens : Writev(c, res, len)
    \/ \E c \in FileTasks, offset \in CallerOffsets, res \in IoResults :
           Preadv(c, offset, res)
    \/ \E c \in FileTasks, offset \in CallerOffsets, res \in IoResults,
          len \in AppendLens : Pwritev(c, offset, res, len)

\* The strong references of a File (File is Arc<FileInternal>, file.rs:297-324).
\* Every task holds floc[c].handles clones and one FileWeak.
MaxRefOps == 4
MaxHandles == 2

\* #[derive(Clone)] on File: Arc::clone
Clone(c) ==
    /\ fpc[c] = "idle" /\ floc[c].handles > 0 /\ floc[c].handles < MaxHandles
    /\ fhist.ops < MaxRefOps
    /\ file' = [file EXCEPT !.strong = @ + 1]
    /\ floc' = [floc EXCEPT ![c].handles = @ + 1]
    /\ flast' = FOp("Clone", c, file.strong, 0, Ok(file.strong + 1))
    /\ fhist' = [fhist EXCEPT !.ops = @ + 1]
    /\ UNCHANGED <<fpc, nonFileVars>>

\* FileWeak::Upgrade: Weak::upgrade gives a new strong reference while the
\* strong count is not 0, and None afterwards
Upgrade(c) ==
    /\ fpc[c] = "idle" /\ floc[c].handles < MaxHandles
    /\ fhist.ops < MaxRefOps
    /\ IF file.strong > 0
       THEN /\ file' = [file EXCEPT !.strong = @ + 1]
            /\ floc' = [floc EXCEPT ![c].handles = @ + 1]
            /\ flast' = FOp("Upgrade", c, file.strong, 0, Ok(file.strong + 1))
       ELSE /\ flast' = FOp("Upgrade", c, file.strong, 0, Err)
            /\ UNCHANGED <<file, floc>>
    /\ fhist' = [fhist EXCEPT !.ops = @ + 1]
    /\ UNCHANGED <<fpc, nonFileVars>>

\* Drop for File, line 303: the test Arc::strong_count(&self.0) == 1
DropCheck(c) ==
    /\ fpc[c] = "idle" /\ floc[c].handles > 0
    /\ fpc' = [fpc EXCEPT ![c] = IF file.strong = 1 THEN "DropCleanup"
                                                    ELSE "DropRelease"]
    /\ floc' = [floc EXCEPT ![c].entry = file.strong]
    /\ UNCHANGED <<file, flast, fhist, nonFileVars>>

\* a cleanup that clears the owner without the Unregister call
DropCleanup_KeepsRegistration(c) ==
    /\ fpc[c] = "DropCleanup"
    /\ file' = [file EXCEPT !.locks = FALSE, !.async = NoOwner, !.cleanups = @ + 1]
    /\ flast' = FOp("DropCleanup", c, floc[c].entry, 0, Ok(file.strong))
    /\ fpc' = [fpc EXCEPT ![c] = "DropRelease"]
    /\ UNCHANGED <<floc, fhist, nonFileVars>>

\* Drop for File, lines 304-322: release the BSD and POSIX locks, Unregister
\* the owner when registered, clear the owner
DropCleanup(c) ==
    /\ fpc[c] = "DropCleanup"
    /\ file' = [file EXCEPT !.locks = FALSE,
                            !.registered = IF file.flags.Async /\ file.async # NoOwner
                                           THEN FALSE ELSE @,
                            !.async = NoOwner,
                            !.cleanups = @ + 1]
    /\ flast' = [FOp("DropCleanup", c, floc[c].entry, 0, Ok(file.strong))
                    EXCEPT !.calls = IF file.flags.Async /\ file.async # NoOwner
                                     THEN <<"Unregister">> ELSE <<>>]
    /\ fpc' = [fpc EXCEPT ![c] = "DropRelease"]
    /\ UNCHANGED <<floc, fhist, nonFileVars>>

\* the end of drop: the Arc field is dropped and the strong count goes down
DropRelease(c) ==
    /\ fpc[c] = "DropRelease"
    /\ file' = [file EXCEPT !.strong = @ - 1]
    /\ floc' = [floc EXCEPT ![c].handles = @ - 1, ![c].entry = 0]
    /\ fpc' = [fpc EXCEPT ![c] = "idle"]
    /\ flast' = FOp("Drop", c, file.strong, 0, Ok(file.strong - 1))
    /\ UNCHANGED <<fhist, nonFileVars>>

\* the values of SettableFileFlags
SettableFlags ==
    [Direct : BOOLEAN, NonBlocking : BOOLEAN, Append : BOOLEAN, Async : BOOLEAN]

\* the Register and Unregister calls SetFlags makes on the owner
SetFlagsCalls(newFlags) ==
    IF file.async = NoOwner
    THEN <<>>
    ELSE (IF newFlags.Async /\ ~file.flags.Async THEN <<"Register">> ELSE <<>>)
         \o (IF ~newFlags.Async /\ file.flags.Async THEN <<"Unregister">> ELSE <<>>)

\* the registration of the owner after the calls cs
Registered(cs) ==
    IF cs = <<>> THEN file.registered ELSE cs[Len(cs)] = "Register"

\* a SetFlags that registers the owner whenever the new flags ask for Async
SetFlags_AlwaysRegisters(c, newFlags) ==
    /\ fpc[c] = "idle" /\ floc[c].handles > 0
    /\ fhist.ops < MaxRefOps
    /\ LET cs == IF file.async # NoOwner /\ newFlags.Async
                 THEN <<"Register">> ELSE SetFlagsCalls(newFlags)
       IN /\ file' = [file EXCEPT !.flags = newFlags, !.registered = Registered(cs)]
          /\ flast' = [FOp("SetFlags", c, 0, 0, Ok(0))
                          EXCEPT !.arg = newFlags, !.calls = cs,
                                 !.rep = flast.op = "SetFlags" /\ flast.arg = newFlags]
    /\ fhist' = [fhist EXCEPT !.ops = @ + 1]
    /\ UNCHANGED <<fpc, floc, nonFileVars>>

\* File::SetFlags, under the flags lock
SetFlags(c, newFlags) ==
    /\ fpc[c] = "idle" /\ floc[c].handles > 0
    /\ fhist.ops < MaxRefOps
    /\ LET cs == SetFlagsCalls(newFlags)
       IN /\ file' = [file EXCEPT !.flags = [Direct |-> newFlags.Direct,
                                             NonBlocking |-> newFlags.NonBlocking,
                                             Append |-> newFlags.Append,
                                             Async |-> newFlags.Async],
                                  !.registered = Registered(cs)]
          /\ flast' = [FOp("SetFlags", c, 0, 0, Ok(0))
                          EXCEPT !.arg = newFlags, !.calls = cs,
                                 !.rep = flast.op = "SetFlags" /\ flast.arg = newFlags]
    /\ fhist' = [fhist EXCEPT !.ops = @ + 1]
    /\ UNCHANGED <<fpc, floc, nonFileVars>>

\* an Async that installs every owner it is given
Async_Replaces(c, newAsync) ==
    /\ fpc[c] = "idle" /\ floc[c].handles > 0
    /\ fhist.ops < MaxRefOps
    /\ LET install == newAsync # NoOwner
           cs == IF install /\ file.flags.Async THEN <<"Register">> ELSE <<>>
           owner == IF install THEN newAsync ELSE file.async
       IN /\ file' = [file EXCEPT !.async = owner, !.registered = Registered(cs)]
          /\ flast' = [FOp("Async", c, 0, 0, Ok(0))
                          EXCEPT !.newAsync = newAsync, !.ret = owner, !.calls = cs,
                                 !.rep = flast.op = "Async" /\ flast.newAsync = newAsync]
    /\ fhist' = [fhist EXCEPT !.ops = @ + 1]
    /\ UNCHANGED <<fpc, floc, nonFileVars>>

\* File::Async, under the flags lock; newAsync is NoOwner for None
Async(c, newAsync) ==
    /\ fpc[c] = "idle" /\ floc[c].handles > 0
    /\ fhist.ops < MaxRefOps
    /\ LET install == file.async = NoOwner /\ newAsync # NoOwner
           cs == IF install /\ file.flags.Async THEN <<"Register">> ELSE <<>>
           owner == IF install THEN newAsync ELSE file.async
       IN /\ file' = [file EXCEPT !.async = owner, !.registered = Registered(cs)]
          /\ flast' = [FOp("Async", c, 0, 0, Ok(0))
                          EXCEPT !.newAsync = newAsync, !.ret = owner, !.calls = cs,
                                 !.rep = flast.op = "Async" /\ flast.newAsync = newAsync]
    /\ fhist' = [fhist EXCEPT !.ops = @ + 1]
    /\ UNCHANGED <<fpc, floc, nonFileVars>>

NextFileOwner ==
    \/ \E c \in FileTasks, newFlags \in SettableFlags : SetFlags(c, newFlags)
    \/ \E c \in FileTasks, newAsync \in {NoOwner} \cup Owners : Async(c, newAsync)
    \/ \E c \in FileTasks : Clone(c)
    \/ \E c \in FileTasks : Upgrade(c)
    \/ \E c \in FileTasks : DropCheck(c)
    \/ \E c \in FileTasks : DropCleanup(c)
    \/ \E c \in FileTasks : DropRelease(c)

----------------------------------------------------------------------------
(* The loader (qkernel/src/loader/loader.rs): LoadExecutable follows      *)
(* interpreter scripts from one path to the next.                         *)

MAX_LOADER_ATTEMPTS == 6
\* the paths of the file system
NumPaths == 2
Paths == 1..NumPaths

\* What a path holds: nothing OpenPath can open, a file ReadAll fails on, a
\* file of fewer than 4 bytes, an ELF file, a '#!' script naming the next path
\* (next is 0 when the script does not parse), or something else.
FileKinds ==
    {[kind |-> k, next |-> 0] : k \in {"missing", "unreadable", "short", "elf", "other"}}
        \cup {[kind |-> "script", next |-> q] : q \in 0..NumPaths}

InitLoader(fs) ==
    /\ ldfs = fs
    /\ ld = [pc |-> "loop", filename |-> 1, i |-> 0, opens |-> 0, hdr |-> "none",
             ret |-> "none"]

LoadReturn(ret) == [ld EXCEPT !.pc = "done", !.ret = ret, !.opens = @ + 1]

\* what one pass of the loop does with the file f at ld.filename
LoadDispatch(f, elfOk) ==
    IF f.kind = "missing" THEN LoadReturn("ENOENT")
    ELSE IF f.kind \in {"unreadable", "short"} THEN LoadReturn("ENOEXEC")
    ELSE IF f.kind = "elf"
    THEN LoadReturn(IF elfOk THEN "Ok" ELSE "LoadElfError")
    ELSE IF f.kind = "script"
    THEN IF f.next = 0 THEN LoadReturn("ParseError")
         ELSE [ld EXCEPT !.filename = f.next, !.i = @ + 1, !.opens = @ + 1]
    ELSE LoadReturn("ENOEXEC")

\* a loop that goes on after MAX_LOADER_ATTEMPTS passes
LoadAttempt_NoLimit(elfOk) ==
    /\ ld.pc = "loop"
    /\ LET f == ldfs[ld.filename]
       IN ld' = [LoadDispatch(f, elfOk) EXCEPT !.hdr = f.kind]
    /\ UNCHANGED <<ldfs, nonLdVars>>

\* one pass of the loop of LoadExecutable: OpenPath, ReadAll of the 4-byte
\* header, and the dispatch on the magic.  elfOk: whether LoadElf succeeds.
LoadAttempt(elfOk) ==
    /\ ld.pc = "loop" /\ ld.i < MAX_LOADER_ATTEMPTS
    /\ LET f == ldfs[ld.filename]
       IN ld' = [LoadDispatch(f, elfOk) EXCEPT !.hdr = f.kind]
    /\ UNCHANGED <<ldfs, nonLdVars>>

\* the loop ends after MAX_LOADER_ATTEMPTS passes
LoadExhausted ==
    /\ ld.pc = "loop" /\ ld.i >= MAX_LOADER_ATTEMPTS
    /\ ld' = [ld EXCEPT !.pc = "done", !.ret = "ENOEXEC"]
    /\ UNCHANGED <<ldfs, nonLdVars>>

NextLoader ==
    \/ \E elfOk \in BOOLEAN : LoadAttempt(elfOk)
    \/ LoadExhausted

\* the longest file name OpenPath is called with
MaxNameLen == 3
\* file names: strings of at most MaxNameLen bytes, each '/' or another byte
NameBytes == {"/", "a"}
Names == UNION {[1..n -> NameBytes] : n \in 0..MaxNameLen}

\* what FindInode returns: an error, or the dirent of a file or a directory
FindResults == {"ENOENT", "file", "dir"}

\* OpenPath(task, filename, maxTraversals).  find: what FindInode returns;
\* permOk: whether CheckPermission succeeds; getFileOk: whether GetFile does.
OpenPath(filename, find, permOk, getFileOk) ==
    IF find \notin {"file", "dir"} THEN find
    ELSE IF ~permOk THEN "EACCES"
    ELSE LET len == Len(filename)
             IsDir == find = "dir"
         IN IF len > 0 /\ filename[len] = "/" /\ IsDir
            THEN "ENOTDIR"
            ELSE IF getFileOk THEN "Ok" ELSE "GetFileError"

----------------------------------------------------------------------------
(* The host IO thread (qvisor/src/kvmlib/runc/runtime/vm.rs):              *)
(* VirtualMachine::Process pumps guest messages until EXIT_STATUS is set.  *)

\* EXIT_STATUS while the virtual machine runs
RUNNING_STATUS == -1
\* the exit statuses the vCPU threads set
ExitStatuses == {0, 1}
\* for _ in 0..10 { for _ in 0..2000 { ... } }
SPIN_OUTER == 10
SPIN_INNER == 2000

InitVm ==
    vm = [pc |-> "GuestMsgProcess", EXIT_STATUS |-> RUNNING_STATUS,
          i |-> 0, j |-> 0, inHost |-> FALSE, closes |-> 0]

IsRunning == vm.EXIT_STATUS = RUNNING_STATUS

\* SetExitStatus(status), by a vCPU thread
SetExitStatus(status) ==
    /\ vm.EXIT_STATUS # status
    /\ vm' = [vm EXCEPT !.EXIT_STATUS = status]
    /\ UNCHANGED <<sigVars, last, budget, hist, notVars, fileVars, ldVars, call, lk>>

\* shareSpace.GuestMsgProcess() at the top of 'main
GuestMsgProcess ==
    /\ vm.pc = "GuestMsgProcess"
    /\ vm' = [vm EXCEPT !.pc = "IsRunning"]
    /\ UNCHANGED <<sigVars, last, budget, hist, notVars, fileVars, ldVars, call, lk>>

\* a check that goes on as if the virtual machine still ran
ExitCheck_Ignores(at, next) ==
    /\ vm.pc = at
    /\ vm' = [vm EXCEPT !.pc = next]
    /\ UNCHANGED <<sigVars, last, budget, hist, notVars, fileVars, ldVars, call, lk>>

\* if !IsRunning() { VMS.lock().CloseVMSpace(); return; } at position at,
\* going on to next otherwise
ExitCheck(at, next) ==
    /\ vm.pc = at
    /\ vm' = IF ~IsRunning
             THEN [vm EXCEPT !.pc = "returned", !.closes = @ + 1]
             ELSE [vm EXCEPT !.pc = next]
    /\ UNCHANGED <<sigVars, last, budget, hist, notVars, fileVars, ldVars, call, lk>>

\* FD_NOTIFIER.WaitAndNotify(shareSpace, 0): a poll that does not block
WaitAndNotifyPoll ==
    /\ vm.pc = "WaitAndNotifyPoll"
    /\ vm' = [vm EXCEPT !.pc = "spin", !.i = 0, !.j = 0]
    /\ UNCHANGED <<sigVars, last, budget, hist, notVars, fileVars, ldVars, call, lk>>

\* one pass of the inner spin loop; ready: ReadyOutputMsgCnt() > 0
Spin(ready) ==
    /\ vm.pc = "spin"
    /\ vm' = IF ready THEN [vm EXCEPT !.pc = "GuestMsgProcess", !.i = 0, !.j = 0]
             ELSE IF vm.j + 1 < SPIN_INNER THEN [vm EXCEPT !.j = @ + 1]
             ELSE IF vm.i + 1 < SPIN_OUTER THEN [vm EXCEPT !.i = @ + 1, !.j = 0]
             ELSE [vm EXCEPT !.pc = "WaitInHost", !.i = 0, !.j = 0]
    /\ UNCHANGED <<sigVars, last, budget, hist, notVars, fileVars, ldVars, call, lk>>

\* shareSpace.WaitInHost() and the test of ReadyOutputMsgCnt() after it
WaitInHost(ready) ==
    /\ vm.pc = "WaitInHost"
    /\ vm' = IF ready
             THEN [vm EXCEPT !.pc = "GuestMsgProcess", !.inHost = FALSE]
             ELSE [vm EXCEPT !.pc = "WaitAndNotifyBlock", !.inHost = TRUE]
    /\ UNCHANGED <<sigVars, last, budget, hist, notVars, fileVars, ldVars, call, lk>>

\* FD_NOTIFIER.WaitAndNotify(shareSpace, -1) returns: the thread was woken
WaitAndNotifyBlock ==
    /\ vm.pc = "WaitAndNotifyBlock"
    /\ vm' = [vm EXCEPT !.pc = "IsRunningWoken"]
    /\ UNCHANGED <<sigVars, last, budget, hist, notVars, fileVars, ldVars, call, lk>>

\* shareSpace.WakeInHost() and the test of ReadyOutputMsgCnt() after the wake
WakeInHost(ready) ==
    /\ vm.pc = "WakeInHost"
    /\ vm' = [vm EXCEPT !.pc = IF ready THEN "GuestMsgProcess" ELSE "WaitInHost",
                        !.inHost = FALSE]
    /\ UNCHANGED <<sigVars, last, budget, hist, notVars, fileVars, ldVars, call, lk>>

\* the steps of VirtualMachine::Process
Process ==
    \/ GuestMsgProcess
    \/ ExitCheck("IsRunning", "WaitAndNotifyPoll")
    \/ WaitAndNotifyPoll
    \/ \E ready \in BOOLEAN : Spin(ready)
    \/ \E ready \in BOOLEAN : WaitInHost(ready)
    \/ WaitAndNotifyBlock
    \/ ExitCheck("IsRunningWoken", "WakeInHost")
    \/ \E ready \in BOOLEAN : WakeInHost(ready)

NextVm ==
    \/ Process
    \/ \E status \in ExitStatuses : SetExitStatus(status)

----------------------------------------------------------------------------
(* The two mutexes the signal calls on one thread take: the thread's own   *)
(* mutex (Thread::lock) and its thread group's signalLock.  lk.thread and  *)
(* lk.signalLock hold the caller that owns the mutex, or 0.  A statement   *)
(* such as self.lock().tg.clone() takes the thread's mutex and releases it *)
(* at the end of the statement: it is one step that needs the mutex free.  *)

NumLockCallers == 2
MaxLockCalls == 3
LockCallers == 1..NumLockCallers
\* the calls that take signalLock first and the thread's mutex under it
SignalLockFirst == {"SendSignal", "SendGroupSignal", "SetSignalMask", "RunInterrupt"}
LockOps == {"PendingSignals"} \cup SignalLockFirst

InitLocks ==
    [thread |-> 0, signalLock |-> 0, calls |-> 0,
     pc |-> [c \in LockCallers |-> "idle"],
     op |-> [c \in LockCallers |-> "none"]]

nonLockVars == <<sigVars, last, budget, hist, notVars, fileVars, ldVars, call, vm>>

\* a kernel context enters one of the calls on the thread
LockCall(c, op) ==
    /\ lk.pc[c] = "idle" /\ lk.calls < MaxLockCalls
    /\ lk' = [lk EXCEPT !.pc[c] = "enter", !.op[c] = op, !.calls = @ + 1]
    /\ UNCHANGED nonLockVars

\* PendingSignals: let t = self.lock() holds the thread's mutex to the end
PendingSignals_LockThread(c) ==
    /\ lk.pc[c] = "enter" /\ lk.op[c] = "PendingSignals"
    /\ lk.thread = 0
    /\ lk' = [lk EXCEPT !.thread = c, !.pc[c] = "lockSignal"]
    /\ UNCHANGED nonLockVars

\* PendingSignals: lock.lock() on signalLock, with the thread's mutex held
PendingSignals_LockSignal(c) ==
    /\ lk.pc[c] = "lockSignal" /\ lk.op[c] = "PendingSignals"
    /\ lk.signalLock = 0
    /\ lk' = [lk EXCEPT !.signalLock = c, !.pc[c] = "locked"]
    /\ UNCHANGED nonLockVars

\* PendingSignals returns: both guards are dropped
PendingSignals_Return(c) ==
    /\ lk.pc[c] = "locked" /\ lk.op[c] = "PendingSignals"
    /\ lk' = [lk EXCEPT !.thread = 0, !.signalLock = 0,
                        !.pc[c] = "idle", !.op[c] = "none"]
    /\ UNCHANGED nonLockVars

\* the other calls: self.lock().tg.clone()
SignalCall_GetTg(c) ==
    /\ lk.pc[c] = "enter" /\ lk.op[c] \in SignalLockFirst
    /\ lk.thread = 0
    /\ lk' = [lk EXCEPT !.pc[c] = "lockSignal"]
    /\ UNCHANGED nonLockVars

\* the other calls: lock.lock() on signalLock
SignalCall_LockSignal(c) ==
    /\ lk.pc[c] = "lockSignal" /\ lk.op[c] \in SignalLockFirst
    /\ lk.signalLock = 0
    /\ lk' = [lk EXCEPT !.signalLock = c, !.pc[c] = "locked"]
    /\ UNCHANGED nonLockVars

\* the other calls: the body under signalLock reads or writes the thread
\* through self.lock() (sendSignalTimerLocked, setSignalMaskLocked)
SignalCall_LockThread(c) ==
    /\ lk.pc[c] = "locked" /\ lk.op[c] \in SignalLockFirst
    /\ lk.thread = 0
    /\ lk' = [lk EXCEPT !.pc[c] = "unlock"]
    /\ UNCHANGED nonLockVars

\* the other calls return: the signalLock guard is dropped
SignalCall_Return(c) ==
    /\ lk.pc[c] = "unlock" /\ lk.op[c] \in SignalLockFirst
    /\ lk' = [lk EXCEPT !.signalLock = 0, !.pc[c] = "idle", !.op[c] = "none"]
    /\ UNCHANGED nonLockVars

\* the steps of a caller inside a call
LockStep(c) ==
    \/ PendingSignals_LockThread(c)
    \/ PendingSignals_LockSignal(c)
    \/ PendingSignals_Return(c)
    \/ SignalCall_GetTg(c)
    \/ SignalCall_LockSignal(c)
    \/ SignalCall_LockThread(c)
    \/ SignalCall_Return(c)

NextLocks ==
    \E c \in LockCallers :
        \/ \E op \in LockOps : LockCall(c, op)
        \/ LockStep(c)

----------------------------------------------------------------------------
(* The specifications *)

\* no function has been called
NoCall == [fn |-> "none", sig |-> 0, handler |-> 0, ret |-> 0]

Init ==
    /\ InitSignals /\ InitNotifier
    /\ InitFile(TRUE, DefaultFlags)
    /\ InitLoader([p \in Paths |-> [kind |-> "missing", next |-> 0]])
    /\ call = NoCall /\ InitVm /\ lk = InitLocks

\* SpecFile: tasks seek, read and write one File, seekable or not, opened
\* with or without O_APPEND
InitFileOffsets ==
    /\ InitSignals /\ InitNotifier
    /\ \E seekable \in BOOLEAN, append \in BOOLEAN :
           InitFile(seekable, [DefaultFlags EXCEPT !.Append = append])
    /\ InitLoader([p \in Paths |-> [kind |-> "missing", next |-> 0]])
    /\ call = NoCall /\ InitVm /\ lk = InitLocks

SpecFile == InitFileOffsets /\ [][NextFile]_vars

\* SpecFileOwner: the flags, the owner and the strong references of one File
SpecFileOwner == Init /\ [][NextFileOwner]_vars

\* SpecFileAsync: the same calls on a File that File::New made with or
\* without the Async flag
InitFileAsync ==
    /\ InitSignals /\ InitNotifier
    /\ \E async \in BOOLEAN :
           InitFile(TRUE, [DefaultFlags EXCEPT !.Async = async])
    /\ InitLoader([p \in Paths |-> [kind |-> "missing", next |-> 0]])
    /\ call = NoCall /\ InitVm /\ lk = InitLocks

SpecFileAsync == InitFileAsync /\ [][NextFileOwner]_vars

\* SpecLoader: LoadExecutable of path 1 in any file system
InitAnyFs ==
    /\ InitSignals /\ InitNotifier
    /\ InitFile(TRUE, DefaultFlags)
    /\ \E fs \in [Paths -> FileKinds] : InitLoader(fs)
    /\ call = NoCall /\ InitVm /\ lk = InitLocks

SpecLoader == InitAnyFs /\ [][NextLoader]_vars /\ WF_vars(NextLoader)


\* The steps of the task loop of thread t
TaskStep(t) ==
    \/ EnterInterrupt(t)
    \/ RunInterrupt_ContNotify(t)
    \/ RunInterrupt_NotifyCont(t)
    \/ RunInterrupt_Stop(t)
    \/ RunInterrupt_BeginStop(t)
    \/ RunInterrupt_NotifyStop(t)
    \/ RunInterrupt_Dequeue(t)
    \/ \E pushOk \in BOOLEAN : ThreadDeliverSignal(t, pushOk)
    \/ TaskExit(t)

\* Spec: signals are sent to a thread group whose threads run their task
\* loops; user code makes no system call.
StopSendSigs == {0, SIGKILL, SIGCONT, SIGSTOP, SignalMaximum + 1}

Next ==
    \/ \E t \in Tasks, sig \in StopSendSigs, group \in BOOLEAN :
          SendSignal(t, sig, group)
    \/ \E t \in Tasks : TaskStep(t)

Spec == Init /\ [][Next]_vars

\* SpecMask: the user code of thread 1 also changes its mask and the
\* group's actions, waits for signals and returns from handlers.
MaskSendSigs == {SIGUSR1, SIGCONT, SIGTSTP}
SyscallTask == 1

NextMask ==
    \/ \E t \in Tasks, sig \in MaskSendSigs, group \in BOOLEAN :
          SendSignal(t, sig, group)
    \/ \E t \in Tasks : TaskStep(t)
    \/ \E m \in MaskChoices : SetSignalMask(SyscallTask, m)
    \/ \E set \in WaitSets, to \in Timeouts : Sigtimedwait(SyscallTask, set, to)
    \/ \E t \in Tasks, err \in {"ETIMEDOUT", "EINTR"} : SigtimedwaitWake(t, err)
    \/ \E m \in MaskChoices : SignalReturn(SyscallTask, m)
    \/ \E sig \in ActSigs, a \in ActChoices : SetSignalAct(sig, a)

SpecMask == Init /\ [][NextMask]_vars

\* SpecStopLive: stop signals are sent and nothing continues or kills the
\* group; every thread that can take a step of its task loop eventually
\* takes one.
LiveSendSigs == {0, SIGSTOP, SIGTSTP}

\* the task loop of a thread in a group that no SIGCONT reaches and no thread
\* leaves: the steps of RunInterrupt that act on a continue, and the exit path,
\* are never enabled there
StopStep(t) ==
    \/ EnterInterrupt(t)
    \/ RunInterrupt_Stop(t)
    \/ RunInterrupt_BeginStop(t)
    \/ RunInterrupt_NotifyStop(t)
    \/ RunInterrupt_Dequeue(t)
    \/ \E pushOk \in BOOLEAN : ThreadDeliverSignal(t, pushOk)

NextStopLive ==
    \/ \E t \in Tasks, sig \in LiveSendSigs, group \in BOOLEAN :
          SendSignal(t, sig, group)
    \/ \E t \in Tasks : StopStep(t)

SpecStopLive ==
    Init /\ [][NextStopLive]_vars /\ \A t \in Tasks : WF_vars(StopStep(t))

\* SpecFrame: SIGUSR1 is sent to thread 1 and to its group; thread 1 installs
\* a handler, sets an alternate stack, changes its mask, saves a mask, runs
\* user code and returns from the handler.
FrameMasks == {{}, {SIGTSTP}}
FrameActChoices ==
    {[handler |-> UserHandler, mask |-> {SIGTSTP}, flags |-> {}],
     [handler |-> UserHandler, mask |-> {}, flags |-> {"ONSTACK"}]}

FrameStep(t) ==
    \/ EnterInterrupt(t)
    \/ RunInterrupt_Dequeue(t)
    \/ \E pushOk \in BOOLEAN : ThreadDeliverSignal(t, pushOk)
    \/ TaskExit(t)

NextFrame ==
    \/ \E group \in BOOLEAN : SendSignal(SyscallTask, SIGUSR1, group)
    \/ FrameStep(SyscallTask)
    \/ \E a \in FrameActChoices : SetSignalAct(SIGUSR1, a)
    \/ \E m \in FrameMasks : SetSignalMask(SyscallTask, m)
    \/ \E m \in FrameMasks : SetSavedSignalMask(SyscallTask, m)
    \/ \E enable \in BOOLEAN : SigAltStack(SyscallTask, enable)
    \/ \E fl \in EflagsChoices : UserRun(SyscallTask, fl)
    \/ /\ Len(ustack[SyscallTask]) > 0
       /\ SignalReturn(SyscallTask,
                       ustack[SyscallTask][Len(ustack[SyscallTask])].oldmask)

SpecFrame == Init /\ [][NextFrame]_vars

\* SpecAction: ComputeAction is called with every signal number and with
\* the handler values 0 (default), 1 (ignore) and two others
Handlers == {SIGNAL_ACT_DEFAULT, SIGNAL_ACT_IGNORE, 2, UserHandler}

CallComputeAction(sig, handler) ==
    /\ call' = [fn |-> "ComputeAction", sig |-> sig, handler |-> handler,
                ret |-> ComputeAction(sig, [DefaultAct EXCEPT !.handler = handler])]
    /\ UNCHANGED <<sigVars, last, budget, hist, notVars, fileVars, ldVars, vm, lk>>

\* OpenPath is called with every file name on every outcome of the lookup,
\* of the permission check and of GetFile
CallOpenPath(filename, find, permOk, getFileOk) ==
    /\ call' = [fn |-> "OpenPath", filename |-> filename, find |-> find,
                permOk |-> permOk, getFileOk |-> getFileOk,
                ret |-> OpenPath(filename, find, permOk, getFileOk)]
    /\ UNCHANGED <<sigVars, last, budget, hist, notVars, fileVars, ldVars, vm, lk>>

NextOpenPath ==
    \E filename \in Names, find \in FindResults, permOk \in BOOLEAN,
       getFileOk \in BOOLEAN : CallOpenPath(filename, find, permOk, getFileOk)

SpecOpenPath == Init /\ [][NextOpenPath]_vars

NextAction == \E sig \in 0..SignalMaximum, handler \in Handlers :
                  CallComputeAction(sig, handler)

SpecAction == Init /\ [][NextAction]_vars

\* SpecKill: SIGKILL, a fatal signal and a stop signal are sent while
\* thread 1 changes its mask and the group's actions, and threads exit
KillSendSigs == {SIGKILL, SIGUSR1, SIGSTOP}

KillStep(t) == StopStep(t) \/ TaskExit(t)

NextKill ==
    \/ \E t \in Tasks, sig \in KillSendSigs, group \in BOOLEAN :
          SendSignal(t, sig, group)
    \/ \E t \in Tasks : KillStep(t)
    \/ \E m \in MaskChoices : SetSignalMask(SyscallTask, m)
    \/ \E sig \in ActSigs, a \in ActChoices : SetSignalAct(sig, a)

SpecKill == Init /\ [][NextKill]_vars

\* SpecQueue: a fatal, a stop and a real-time signal are sent, each more than
\* once, while thread 1 changes its mask
QueueSendSigs == {SIGUSR1, SIGTSTP, SIGRTMIN}

NextQueue ==
    \/ \E t \in Tasks, sig \in QueueSendSigs, group \in BOOLEAN :
          SendSignal(t, sig, group)
    \/ \E t \in Tasks : KillStep(t)
    \/ \E m \in MaskChoices : SetSignalMask(SyscallTask, m)

SpecQueue == Init /\ [][NextQueue]_vars

\* SpecUnblock: a fatal and a stop signal are sent while thread 1 blocks and
\* unblocks the fatal one; every thread takes the steps of its task loop that
\* it can take
UnblockSendSigs == {SIGUSR1, SIGTSTP}
UnblockMasks == {{}, {SIGUSR1}}

NextUnblock ==
    \/ \E t \in Tasks, sig \in UnblockSendSigs, group \in BOOLEAN :
          SendSignal(t, sig, group)
    \/ \E t \in Tasks : KillStep(t)
    \/ \E m \in UnblockMasks : SetSignalMask(SyscallTask, m)

SpecUnblock ==
    /\ Init /\ [][NextUnblock]_vars
    /\ \A t \in Tasks : WF_vars(KillStep(t))

\* SpecWait: thread 1 changes its mask and waits in Sigtimedwait while an
\* ignored and a fatal signal are sent; the task loops run and a blocked
\* Sigtimedwait returns on an interrupt or at its timeout
WaitSendSigs == {SIGCONT, SIGUSR1}
SigwaitSets == {{SIGCONT}, {SIGUSR1, SIGCONT}, {SIGKILL, SIGSTOP, SIGCONT}}

WaitStep(t) ==
    \/ EnterInterrupt(t)
    \/ RunInterrupt_Dequeue(t)
    \/ \E pushOk \in BOOLEAN : ThreadDeliverSignal(t, pushOk)
    \/ TaskExit(t)

NextWait ==
    \/ \E t \in Tasks, sig \in WaitSendSigs, group \in BOOLEAN :
          SendSignal(t, sig, group)
    \/ \E t \in Tasks : WaitStep(t)
    \/ \E m \in MaskChoices : SetSignalMask(SyscallTask, m)
    \/ \E set \in SigwaitSets, to \in Timeouts : Sigtimedwait(SyscallTask, set, to)
    \/ \E err \in {"ETIMEDOUT", "EINTR"} : SigtimedwaitWake(SyscallTask, err)

SpecWait ==
    /\ Init /\ [][NextWait]_vars
    /\ \A t \in Tasks : WF_vars(WaitStep(t))
    /\ WF_vars(\E err \in {"ETIMEDOUT", "EINTR"} : SigtimedwaitWake(SyscallTask, err))

\* SpecCont: the sends of Spec, with every thread taking the steps of its
\* task loop that it can take
SpecCont == Init /\ [][Next]_vars /\ \A t \in Tasks : WF_vars(TaskStep(t))

\* SpecVm: the IO thread runs Process while vCPU threads set the exit status;
\* the thread keeps running and its blocking waits return
SpecVm == Init /\ [][NextVm]_vars /\ WF_vars(Process)

\* the signal calls' mutexes: a caller inside a call keeps running
SpecLocks == Init /\ [][NextLocks]_vars /\ \A c \in LockCallers : WF_vars(LockStep(c))

\* SpecNotifier: the notifier's callers and the waiter queues alone
SpecNotifier == Init /\ [][NextNotifier]_vars

----------------------------------------------------------------------------
(* Claims *)

PendingTasks == {t \in Tasks : th[t].groupStopPending}

\* C1 (spec I3): in every reachable state of the thread group,
\* groupStopPendingCount equals the number of member tasks whose
\* groupStopPending flag is true.
C1_PendingCountMatchesFlags ==
    tg.groupStopPendingCount = Cardinality(PendingTasks)

\* C2: after SIGCONT is sent to a group in a group stop, no non-killed thread
\* that was stopped or had a group stop pending is in the internal group stop
\* again, as long as no new stop signal is sent.
C2_NoGroupStopAfterCont ==
    \A t \in hist.contTasks : th[t].stop = NoStop

IsSend(o) == o.op \in {"SendSignal", "SendGroupSignal"}

\* C3: after SIGCONT is sent to the thread group, groupStopDequeued is false.
C3_ContClearsStopDequeued ==
    (IsSend(last) /\ last.sig = SIGCONT /\ last.ret = "Ok")
        => ~tg.groupStopDequeued

LiveTasks ==
    {t \in Tasks : ~killedLocked(St, t) /\ th[t].exitState < TaskExitInitiated}

StopDequeued ==
    \E t \in Tasks : /\ pc[t] = "deliver"
                     /\ loc[t].info \in STOP_SIGNALS
                     /\ ComputeAction(loc[t].info, loc[t].act) = STOP

GroupStopped ==
    /\ tg.groupStopComplete
    /\ \A t \in LiveTasks : th[t].stop = GROUPSTOP
    /\ parent.stopped = 1

C5_UnblockableNeverMasked ==
    \A t \in Tasks : th[t].signalMask \cap {SIGKILL, SIGSTOP} = {}

\* a mask system call was given SIGKILL or SIGSTOP and has run
C5_Witness ==
    /\ last.op \in {"SetSignalMask", "SignalReturn"}
    /\ last.arg \cap {SIGKILL, SIGSTOP} # {}
    /\ th[last.t].signalMask # {}

\* C6 (spec I4): for every fd in the notifier map at most one poll submission
\* is outstanding, and when one is outstanding its mask is the entry's
\* current mask.
Outstanding(fd) == {e \in ring : e.fd = fd}
C6_OneSubmissionPerFd ==
    \A fd \in Fds :
        fdMap[fd].present =>
            /\ Cardinality(Outstanding(fd)) <= 1
            /\ \A e \in Outstanding(fd) :
                   e.mask = fdMap[fd].mask /\ e.idx = fdMap[fd].userdata

\* a Waitfd has replaced an outstanding submission by one with another mask
C6_Witness ==
    /\ nlast.op = "Waitfd" /\ Len(nlast.ops) = 2
    /\ Cardinality(Outstanding(nlast.fd)) = 1

NoQueueGains ==
    /\ \A s \in ModelSigs : tg'.pendingSignals[s] <= tg.pendingSignals[s]
    /\ \A u \in Tasks : \A s \in ModelSigs :
           th'[u].pendingSignals[s] <= th[u].pendingSignals[s]

\* C7: a send of a valid non-zero signal whose computed action is IGNORE, to
\* a thread that blocks it in neither signalMask nor realSignalMask, returns
\* Ok, adds no entry to any pending queue and interrupts no thread.
C7_IgnoredSignalDiscarded ==
    [][\A t \in Tasks, sig \in ModelSigs, group \in BOOLEAN :
          (/\ th[t].exitState # TaskExitDead
           /\ ComputeAction(sig, sh[sig]) = IGNORE
           /\ sig \notin th[t].signalMask
           /\ sig \notin th[t].realSignalMask
           /\ SendSignal(t, sig, group))
          => /\ last'.ret = "Ok"
             /\ NoQueueGains
             /\ \A u \in Tasks : th'[u].interrupted = th[u].interrupted]_vars

\* SIGUSR1, ignored by a handler of SIG_IGN, was sent and is pending nowhere
C7_Witness ==
    /\ IsSend(last) /\ last.sig = SIGUSR1 /\ last.ret = "Ok"
    /\ sh[SIGUSR1].handler = SIGNAL_ACT_IGNORE
    /\ th[last.t].exitState # TaskExitDead
    /\ tg.pendingSignals[SIGUSR1] = 0
    /\ \A u \in Tasks : th[u].pendingSignals[SIGUSR1] = 0

\* C8: a send returns ESRCH when the target is TaskExitDead, else Ok for
\* signal 0, else EINVAL for an invalid signal number, and in these three
\* cases changes no thread's and no group state.
C8_RejectedSendChangesNothing ==
    [][\A t \in Tasks, sig \in StopSendSigs, group \in BOOLEAN :
          (/\ th[t].exitState = TaskExitDead \/ sig = 0 \/ ~IsValid(sig)
           /\ SendSignal(t, sig, group))
          => /\ last'.ret = IF th[t].exitState = TaskExitDead THEN "ESRCH"
                            ELSE IF sig = 0 THEN "Ok" ELSE "EINVAL"
             /\ UNCHANGED <<th, tg, sh>>]_vars

\* signal 0 was sent to a dead thread of a group that still has a live one
C8_Witness ==
    /\ IsSend(last) /\ last.ret = "ESRCH" /\ last.sig = 0
    /\ \E u \in Tasks : th[u].exitState = TaskExitNone

\* C9: when Sigtimedwait returns, on any path, the thread's signalMask is
\* the one it had at entry and realSignalMask is empty.
C9_SigtimedwaitRestoresMask ==
    last.op \in {"Sigtimedwait", "SigtimedwaitWake"}
        => /\ th[last.t].signalMask = last.arg
           /\ th[last.t].realSignalMask = {}

\* a Sigtimedwait that blocked with a non-empty mask timed out
C9_Witness ==
    /\ last.op = "SigtimedwaitWake" /\ last.ret = "EAGAIN"
    /\ last.arg # {}

AddCount(ops) == Cardinality({i \in 1..Len(ops) : ops[i][1] = "AsyncPollAdd"})

\* C10 (spec R3): of two consecutive calls Waitfd(fd, m); Waitfd(fd, m) the
\* second performs no ring operation and changes no notifier state, and when
\* m is non-zero and differs from the prior mask the two issue exactly one
\* poll submission.
C10_WaitfdIdempotent ==
    [][\A c \in Callers :
          (/\ UpdateFD_Waitfd(c)
           /\ nlast.op = "Waitfd" /\ nlast.ret = "Ok"
           /\ nlast.fd = nloc[c].fd /\ nlast.mask = nloc[c].mask)
          => /\ fdMap' = fdMap /\ ring' = ring
             /\ nlast'.ret = "Ok" /\ nlast'.ops = <<>>
             /\ (nlast.mask # 0 /\ nlast.prior # nlast.mask)
                    => AddCount(nlast.ops) + AddCount(nlast'.ops) = 1]_vars

\* the second of two consecutive Waitfd(fd, m) with m non-zero has run
C10_Witness ==
    /\ nlast.op = "Waitfd" /\ nlast.rep /\ nlast.mask # 0
    /\ Cardinality(Outstanding(nlast.fd)) = 1

\* the ring operations of a mask change from a to b, in call order
RemoveOps(a, ud) == IF a # 0 THEN <<(<<"AsyncPollRemove", ud>>)>> ELSE <<>>
AddOps(fd, b) == IF b # 0 THEN <<(<<"AsyncPollAdd", fd, b>>)>> ELSE <<>>

\* C11: a Waitfd that changes an entry's mask from a to b, a # b, issues
\* AsyncPollRemove of the old userdata iff a # 0, then AsyncPollAdd(fd, b)
\* iff b # 0, and nothing else; a RemoveFD of an entry whose mask is 0 issues
\* no ring operation, and a RemoveFD of an entry with an outstanding
\* submission issues exactly one AsyncPollRemove, of that submission.
C11_RingOpsOfMaskChange ==
    /\ (nlast.op = "Waitfd" /\ nlast.ret = "Ok" /\ nlast.prior # nlast.mask)
          => nlast.ops = RemoveOps(nlast.prior, nlast.ud)
                           \o AddOps(nlast.fd, nlast.mask)
    /\ (nlast.op = "RemoveFD" /\ nlast.ret = "Ok")
          => /\ nlast.prior = 0 => nlast.ops = <<>>
             /\ nlast.ud # None => nlast.ops = <<(<<"AsyncPollRemove", nlast.ud>>)>>
             /\ Outstanding(nlast.fd) = {}

\* an entry whose mask went from one non-zero value to another was removed
\* while its submission was outstanding
C11_Witness ==
    /\ nlast.op = "RemoveFD" /\ nlast.ret = "Ok"
    /\ nlast.prior = EVENT_IN + EVENT_OUT /\ nlast.ud # None
    /\ Len(nlast.ops) = 1

\* C12: UpdateFD(fd) returns Ok without panicking whenever fd is not, or is
\* no longer, in the notifier map.
C12_UpdateOfRemovedFdIsOk ==
    (nlast.op \in {"UpdateFD", "Waitfd"} /\ nlast.prior = None) => nlast.ret = "Ok"

\* C13 (spec I6): a Readv on a seekable File reads at the offset stored when
\* it began, and leaves the stored offset at that offset plus n when ReadAt
\* returned n > 0, and unchanged when ReadAt returned 0 or an error.
C13_ReadvAdvancesOffset ==
    (flast.op = "Readv" /\ file.seekable)
        => /\ flast.at = flast.before
           /\ file.offset = flast.before
                              + (IF flast.ok /\ flast.n > 0 THEN flast.n ELSE 0)

\* a Readv that began at a non-zero offset returned MaxBytes bytes
C13_Witness ==
    /\ flast.op = "Readv" /\ file.seekable
    /\ flast.ok /\ flast.n = MaxBytes /\ flast.before > 0

\* C14 (spec I1): at most one offset-mutating operation of a File is in
\* flight between taking and releasing the offset lock; the stored offset is
\* the offset last set by a Seek, a ReadDir or an appending Writev plus the
\* positive byte counts the seekable reads and writes since then returned,
\* and no two of those that returned bytes started at the same offset.
C14_OffsetOpsSerialized ==
    /\ Cardinality(InFlight) <= 1
    /\ InFlight \subseteq {file.lock}
    /\ file.offset = fhist.base + fhist.sum
    /\ ~fhist.dup

\* C14 as stated: the stored offset is the offset last set by a Seek or
\* ReadDir plus the positive byte counts every seekable Readv and Writev since
\* then returned, appending writes included.
C14_OffsetIsSumOfReturned ==
    /\ Cardinality(InFlight) <= 1
    /\ file.offset = fhist.seekBase + fhist.returned
    /\ ~fhist.dup

\* two reads or writes have returned bytes and a third operation holds the
\* offset lock
C14_Witness ==
    /\ Cardinality(fhist.starts) >= 2 /\ fhist.sum >= 3
    /\ InFlight # {}

\* C15: the cleanup of the last drop (release of the advisory locks,
\* Unregister and clearing of the owner) runs exactly once, when the last
\* strong reference is dropped: never twice, never with another strong
\* reference live, and it has run when no strong reference is left.
C15_CleanupOnceAtLastDrop ==
    /\ file.cleanups <= 1
    /\ (flast.op = "DropCleanup") => (flast.n = 1)
    /\ (file.strong = 0) => (file.cleanups = 1)

\* C18: a SetFlags that directly follows a SetFlags with the same argument
\* changes no flag and calls neither Register nor Unregister.
C18_SetFlagsIdempotent ==
    [][\A c \in FileTasks, a \in SettableFlags :
          (flast.op = "SetFlags" /\ flast.arg = a /\ SetFlags(c, a))
              => /\ file'.flags = file.flags
                 /\ file'.registered = file.registered
                 /\ flast'.calls = <<>>]_vars

\* a SetFlags asking for Async on a File with an owner has been repeated
C18_Witness ==
    /\ flast.op = "SetFlags" /\ flast.rep
    /\ flast.arg.Async /\ flast.arg.NonBlocking
    /\ file.async # NoOwner /\ file.registered

C20_LoaderAttemptsBounded ==
    /\ [](/\ ld.opens <= MAX_LOADER_ATTEMPTS
          /\ (ld.pc = "done" /\ ld.i = MAX_LOADER_ATTEMPTS) => (ld.ret = "ENOEXEC")
          /\ (ld.pc = "done" /\ ld.hdr = "other") => (ld.ret = "ENOEXEC"))
    /\ <>(ld.pc = "done")

\* a cycle of two scripts has used up the passes and ENOEXEC is returned
C20_Witness ==
    /\ ld.pc = "done" /\ ld.ret = "ENOEXEC"
    /\ ld.i = MAX_LOADER_ATTEMPTS /\ ld.opens = MAX_LOADER_ATTEMPTS
    /\ ldfs[1] = [kind |-> "script", next |-> 2]
    /\ ldfs[2] = [kind |-> "script", next |-> 1]

\* C16: when a handler returns through SignalReturn with the frame its
\* delivery pushed unmodified, the thread's signal mask and alternate signal
\* stack are those it had right before the delivery, the restoreable EFLAGS
\* bits are those of the interrupted context, and the other EFLAGS bits are
\* those of the context that executes SignalReturn.
C16_SignalReturnRestoresEntryState ==
    [][(/\ Len(ustack[SyscallTask]) > 0
        /\ SignalReturn(SyscallTask,
                        ustack[SyscallTask][Len(ustack[SyscallTask])].oldmask))
          => LET uc == ustack[SyscallTask][Len(ustack[SyscallTask])]
                 was == th[SyscallTask]
                 now == th'[SyscallTask]
             IN /\ now.signalMask = uc.entryMask
                /\ now.signalStack = uc.entryStack
                /\ now.eflags \cap EFLAGS_RESTOREABLE
                     = uc.eflags \cap EFLAGS_RESTOREABLE
                /\ now.eflags \ EFLAGS_RESTOREABLE
                     = was.eflags \ EFLAGS_RESTOREABLE]_vars

\* the default action table for the signals 1..31, by action
DefaultActionOf(sig) ==
    IF sig \in {1, 2, 9, 10, 12, 13, 14, 15, 16, 26, 27, 29} THEN TERM
    ELSE IF sig \in {3, 4, 5, 6, 7, 8, 11, 24, 25, 30, 31} THEN CORE
    ELSE IF sig \in {19, 20, 21, 22} THEN STOP
    ELSE IGNORE

\* C17: for every signal number 0..64 and every handler value ComputeAction
\* returns STOP for SIGSTOP and TERM for SIGKILL, IGNORE for signal 0, and
\* for the other signals: with the default handler the entry of the default
\* action table for 1..31 and HANDLER from 32 on, IGNORE with the ignore
\* handler, HANDLER with any other handler.
C17_ComputeActionTable ==
    (call.fn = "ComputeAction")
        => call.ret =
             CASE call.sig = SIGSTOP -> STOP
               [] call.sig = SIGKILL -> TERM
               [] call.sig = 0 -> IGNORE
               [] OTHER ->
                    CASE call.handler = SIGNAL_ACT_DEFAULT ->
                           IF call.sig >= 32 THEN HANDLER
                           ELSE DefaultActionOf(call.sig)
                      [] call.handler = SIGNAL_ACT_IGNORE -> IGNORE
                      [] OTHER -> HANDLER

\* ComputeAction was called for SIGKILL with the handler that ignores
C17_Witness ==
    /\ call.fn = "ComputeAction"
    /\ call.sig = SIGKILL /\ call.handler = SIGNAL_ACT_IGNORE
    /\ call.ret = TERM

\* C21: Process does not return while EXIT_STATUS is -1; a check of the
\* exit status that finds another value calls CloseVMSpace once and returns;
\* and once the exit status is set Process reaches such a check and returns.
C21_ProcessReturnsOnExitStatus ==
    /\ [](/\ (vm.pc = "returned") => ~IsRunning
          /\ vm.closes = (IF vm.pc = "returned" THEN 1 ELSE 0))
    /\ [][(vm.pc \in {"IsRunning", "IsRunningWoken"} /\ ~IsRunning
             /\ vm'.pc # vm.pc) => vm'.pc = "returned"]_vars
    /\ (~IsRunning ~> vm.pc = "returned")

\* Process has returned, with one CloseVMSpace, after the exit status was set
C21_Witness ==
    /\ vm.pc = "returned" /\ vm.closes = 1
    /\ vm.EXIT_STATUS = 1

\* C22: Preadv and Pwritev leave the stored offset and the offset lock as
\* they are, whoever holds the lock, and pass the offset of the caller to the
\* file operation; Pwritev calls WriteAt at that offset even when the file has
\* the Append flag.
C22_PositionalIoLeavesOffset ==
    [][(flast'.op \in {"Preadv", "Pwritev"} /\ flast' # flast)
          => /\ file' = file /\ fpc' = fpc /\ floc' = floc
             /\ flast'.at = flast'.off
             /\ flast'.calls = <<IF flast'.op = "Pwritev" THEN "WriteAt"
                                                          ELSE "ReadAt">>]_vars

\* a Pwritev on a file with the Append flag returned bytes written at an
\* offset other than the stored one while another task held the offset lock
C22_Witness ==
    /\ flast.op = "Pwritev" /\ file.flags.Append
    /\ flast.ok /\ flast.n > 0
    /\ flast.off # file.offset
    /\ file.lock # 0 /\ file.lock # flast.c

\* C23: a Writev on a seekable File with the Append flag, once it has the
\* offset lock, calls Append, not WriteAt, returns its byte count and leaves the stored offset at the length
\* Append returned, or where it was when Append failed; without the Append
\* flag it calls WriteAt at the stored offset and leaves the offset advanced
\* by the byte count when that is positive, unchanged otherwise.
C23_WritevAppendStoresLength ==
    /\ flast.op = "WritevAppend"
          => /\ file.seekable /\ file.flags.Append
             /\ flast.calls = <<"Append">>
             /\ file.offset = (IF flast.ok THEN flast.len ELSE flast.before)
    /\ (flast.op = "Writev" /\ file.seekable /\ flast.calls # <<>>)
          => /\ ~file.flags.Append
             /\ flast.calls = <<"WriteAt">> /\ flast.at = flast.before
             /\ file.offset = flast.before
                                + (IF flast.ok /\ flast.n > 0 THEN flast.n ELSE 0)

\* an appending Writev that began at a non-zero offset returned bytes and a
\* length that is not the old offset plus the bytes
C23_Witness ==
    /\ flast.op = "WritevAppend" /\ flast.ok /\ flast.n > 0
    /\ flast.before > 0
    /\ file.offset = flast.len /\ flast.len # flast.before + flast.n

\* C24: a send of a valid non-zero signal to a thread that is not dead
\* applies the side effects of the signal whether or not the signal is then
\* discarded or rejected: after a stop signal no SIGCONT is pending in the
\* group's or any member's queue; after SIGCONT no group stop is pending or
\* complete, no member is in the group stop and none has a group stop pending.
C24_SideEffectsBeforeDiscard ==
    [][\A t \in Tasks, sig \in ModelSigs, group \in BOOLEAN :
          (th[t].exitState # TaskExitDead /\ SendSignal(t, sig, group))
          => /\ sig \in STOP_SIGNALS
                  => /\ tg'.pendingSignals[SIGCONT] = 0
                     /\ \A u \in Tasks : th'[u].pendingSignals[SIGCONT] = 0
             /\ sig = SIGCONT
                  => /\ tg'.groupStopPendingCount = 0
                     /\ ~tg'.groupStopComplete
                     /\ \A u \in Tasks : /\ th'[u].stop # GROUPSTOP
                                          /\ ~th'[u].groupStopPending]_vars

\* C25: a send of SIGKILL to a thread that is not dead leaves the group
\* exiting, with the exit status it had if it was exiting already and
\* {Signo: SIGKILL} otherwise, and every member killed, whatever the actions,
\* the masks and the group stop are.
C25_KillMarksGroupExiting ==
    [][\A t \in Tasks, group \in BOOLEAN :
          (th[t].exitState # TaskExitDead /\ SendSignal(t, SIGKILL, group))
          => /\ tg'.exiting
             /\ tg'.exitStatus = (IF tg.exiting THEN tg.exitStatus
                                  ELSE [Code |-> 0, Signo |-> SIGKILL])
             /\ \A u \in Tasks : th'[u].pendingSignals[SIGKILL] > 0]_vars

\* SIGKILL was sent to a group that was exiting from another fatal signal:
\* the exit status is still that signal's, and every member is killed
C25_Witness ==
    /\ IsSend(last) /\ last.sig = SIGKILL /\ last.ret = "Ok"
    /\ tg.exiting /\ tg.exitStatus.Signo = SIGUSR1
    /\ \A u \in Tasks : th[u].pendingSignals[SIGKILL] > 0

\* C26: a send whose signal is not queued, being already pending in the
\* target queue, changes nothing beyond the side effects of the signal: the
\* target queue and all other thread and group state stay as the side effects
\* leave them and no thread is interrupted as a receiver (the kill of SIGKILL
\* is a side effect); it returns EAGAIN for a real-time signal, Ok for a standard
\* one.
C26_RejectedEnqueueNotifiesNobody ==
    [][\A t \in Tasks, sig \in ModelSigs, group \in BOOLEAN :
          LET s1 == applySignalSideEffectsLocked(St, sig)
              q == IF group THEN s1.tg.pendingSignals ELSE s1.th[t].pendingSignals
              discarded == /\ ComputeAction(sig, sh[sig]) = IGNORE
                           /\ sig \notin th[t].signalMask \cup th[t].realSignalMask
          IN (/\ th[t].exitState # TaskExitDead /\ ~discarded
              /\ q[sig] >= (IF IsRealtime(sig) THEN MaxRtQueued ELSE 1)
              /\ SendSignal(t, sig, group))
             => /\ th' = s1.th /\ tg' = s1.tg
                /\ (IF group THEN tg'.pendingSignals
                              ELSE th'[t].pendingSignals) = q
                /\ sig # SIGKILL
                     => \A u \in Tasks : th'[u].interrupted = th[u].interrupted
                /\ last'.ret = (IF IsRealtime(sig) THEN "EAGAIN" ELSE "Ok")]_vars

\* a group-directed send of a real-time signal returned EAGAIN while a thread
\* that could have received it was not interrupted
C26_Witness ==
    /\ last.op = "SendGroupSignal" /\ last.sig = SIGRTMIN /\ last.ret = "EAGAIN"
    /\ tg.pendingSignals[SIGRTMIN] = MaxRtQueued
    /\ \E u \in Tasks : canReceiveSignalLocked(St, u, SIGRTMIN)

\* C27: the receiver selection of a send interrupts at most one thread, one
\* that does not block the signal in signalMask, is not stopped and had no
\* pending interrupt; it interrupts the target whenever the target is such a
\* thread and the signal was queued, and a thread other than the target only
\* in a group-directed send.
C27_ReceiverSelection ==
    [][\A t \in Tasks, sig \in ModelSigs, group \in BOOLEAN :
          LET s1 == applySignalSideEffectsLocked(St, sig)
              q == IF group THEN s1.tg.pendingSignals ELSE s1.th[t].pendingSignals
              discarded == /\ ComputeAction(sig, sh[sig]) = IGNORE
                           /\ sig \notin th[t].signalMask \cup th[t].realSignalMask
              queued == /\ ~discarded
                        /\ q[sig] < (IF IsRealtime(sig) THEN MaxRtQueued ELSE 1)
              eligible == {u \in Tasks : /\ sig \notin s1.th[u].signalMask
                                          /\ s1.th[u].stop = NoStop
                                          /\ ~s1.th[u].interrupted}
              chosen == {u \in Tasks : th'[u].interrupted /\ ~s1.th[u].interrupted}
          IN (th[t].exitState # TaskExitDead /\ SendSignal(t, sig, group))
             => /\ Cardinality(chosen) <= 1
                /\ chosen \subseteq eligible
                /\ (queued /\ t \in eligible) => chosen = {t}
                /\ ~group => chosen \subseteq {t}
                /\ ~queued => chosen = {}]_vars

\* a group-directed send to a thread that blocks the signal interrupted the
\* other thread and not the target
C27_Witness ==
    /\ last.op = "SendGroupSignal" /\ last.sig = SIGUSR1 /\ last.ret = "Ok"
    /\ SIGUSR1 \in th[last.t].signalMask /\ ~th[last.t].interrupted
    /\ tg.pendingSignals[SIGUSR1] = 1
    /\ \E u \in Tasks \ {last.t} :
           /\ th[u].interrupted /\ SIGUSR1 \notin th[u].signalMask
           /\ pc[u] = "app" /\ th[u].stop = NoStop

\* C28: a mask change never clears a pending interrupt of the caller; when it
\* newly blocks signals pending in the group queue and the caller had a
\* pending interrupt, then for each such signal for which another member was
\* eligible a member that can take the signal is interrupted afterwards.
C28_MaskChangeKeepsInterrupt ==
    [][\A m \in MaskChoices :
          LET t == SyscallTask
              blocked == (m \ UNMASKABLE_MASK) \ th[t].signalMask
              blockedGroupPending == blocked \cap pendingSet(tg.pendingSignals)
              eligible(sig) == {u \in Tasks \ {t} : /\ sig \notin th[u].signalMask
                                                     /\ th[u].stop = NoStop
                                                     /\ ~th[u].interrupted}
          IN SetSignalMask(t, m)
             => /\ th[t].interrupted => th'[t].interrupted
                /\ \A sig \in blockedGroupPending :
                      (th[t].interrupted /\ eligible(sig) # {})
                      => \E u \in Tasks \ {t} :
                            /\ th'[u].interrupted
                            /\ sig \notin th'[u].signalMask
                            /\ th'[u].stop = NoStop
                /\ \A u \in Tasks \ {t} :
                      (th'[u].interrupted /\ ~th[u].interrupted)
                      => \E sig \in blockedGroupPending : u \in eligible(sig)]_vars

\* thread 1, interrupted for a group signal, blocked it: it still has its
\* interrupt and the other thread was interrupted in its place
C28_Witness ==
    /\ last.op = "SetSignalMask" /\ SIGUSR1 \in last.arg
    /\ tg.pendingSignals[SIGUSR1] = 1
    /\ SIGUSR1 \in th[SyscallTask].signalMask /\ th[SyscallTask].interrupted
    /\ th[SyscallTask].pendingSignals = EmptyQueue
    /\ \E u \in Tasks \ {SyscallTask} :
           /\ th[u].interrupted /\ th[u].stop = NoStop
           /\ SIGUSR1 \notin th[u].signalMask /\ pc[u] = "app"
           /\ th[u].pendingSignals = EmptyQueue
    /\ tg.pendingSignals[SIGTSTP] = 0 /\ tg.pendingSignals[SIGRTMIN] = 0

\* the signals pending for t, in its own or the group's queue, that its mask
\* does not block
Deliverable(t) ==
    (pendingSet(th[t].pendingSignals) \cup pendingSet(tg.pendingSignals))
        \ th[t].signalMask

\* C29: when a mask change unblocks a signal that the old mask blocked and
\* that is pending in the caller's or the group's queue, the caller has a
\* pending interrupt afterwards; and a caller left with a pending interrupt
\* and a deliverable signal goes on to dequeue a signal in RunInterrupt, unless
\* it enters a stop first or the signals are taken or blocked before.
C29_UnblockInterruptsCaller ==
    /\ [][\A m \in MaskChoices :
             LET t == SyscallTask
                 unblocked == th[t].signalMask \ (m \ UNMASKABLE_MASK)
                 unblockedPending ==
                     unblocked \cap (pendingSet(th[t].pendingSignals)
                                      \cup pendingSet(tg.pendingSignals))
             IN (SetSignalMask(t, m) /\ unblockedPending # {})
                => /\ th'[t].interrupted
                   /\ unblockedPending \subseteq Deliverable(t)']_vars
    /\ (/\ last.op = "SetSignalMask" /\ th[SyscallTask].interrupted
        /\ Deliverable(SyscallTask) # {})
          ~> \/ pc[SyscallTask] = "deliver"
             \/ th[SyscallTask].stop # NoStop
             \/ Deliverable(SyscallTask) = {}

\* thread 1 has changed its mask twice and is left, not blocking SIGUSR1,
\* with a SIGUSR1 pending in its own queue and a pending interrupt
C29_Witness ==
    /\ last.op = "SetSignalMask" /\ last.arg = {} /\ budget.maskops = 0
    /\ th[SyscallTask].signalMask = {}
    /\ th[SyscallTask].pendingSignals[SIGUSR1] = 1
    /\ th[SyscallTask].interrupted /\ pc[SyscallTask] = "app"

\* thread t is blocked in Sigtimedwait on sig, which its mask blocked before
\* the call
WaitsFor(t, sig) ==
    /\ pc[t] = "sigwait"
    /\ sig \notin loc[t].mask
    /\ sig \in th[t].realSignalMask

\* a send, to thread 1 blocked in Sigtimedwait, of a signal it waits for,
\* blocked before the call and ignored, leaves the signal pending in the target
\* queue and the waiter with a pending interrupt
WaiterSendQueued ==
    [][\A sig \in ModelSigs, group \in BOOLEAN :
          LET t == SyscallTask
              q == IF group THEN tg.pendingSignals ELSE th[t].pendingSignals
          IN (/\ WaitsFor(t, sig) /\ ComputeAction(sig, sh[sig]) = IGNORE
              /\ SendSignal(t, sig, group))
             => /\ (IF group THEN tg'.pendingSignals ELSE th'[t].pendingSignals)
                      = [q EXCEPT ![sig] = IF q[sig] = 0 THEN 1 ELSE @]
                /\ th'[t].interrupted
                /\ last'.ret = "Ok"]_vars

\* Sigtimedwait returns only signals of its set other than SIGKILL and SIGSTOP
SigtimedwaitReturnsInSet ==
    [][\A set \in SigwaitSets, to \in Timeouts, err \in {"ETIMEDOUT", "EINTR"} :
          /\ (Sigtimedwait(SyscallTask, set, to) /\ last'.ret = "Ok")
                => last'.sig \in set \ {SIGKILL, SIGSTOP}
          /\ (Sigtimedwait(SyscallTask, set, to) /\ pc'[SyscallTask] = "sigwait")
                => AllSignals \ loc'[SyscallTask].mask = set \ {SIGKILL, SIGSTOP}
          /\ (SigtimedwaitWake(SyscallTask, err) /\ last'.ret = "Ok")
                => /\ last'.sig \notin loc[SyscallTask].mask
                   /\ last'.sig \notin {SIGKILL, SIGSTOP}]_vars

\* thread 1 waits for SIGCONT, blocked before the call, and a SIGCONT is
\* pending in its own or the group's queue
WaiterHasSigcont ==
    /\ WaitsFor(SyscallTask, SIGCONT)
    /\ th[SyscallTask].pendingSignals[SIGCONT] > 0
          \/ tg.pendingSignals[SIGCONT] > 0

\* the Sigtimedwait of thread 1 returned the info of sig
SigtimedwaitReturned(sig) ==
    /\ last.op = "SigtimedwaitWake" /\ last.t = SyscallTask
    /\ last.ret = "Ok" /\ last.sig = sig

Acknowledges(t) ==
    /\ RunInterrupt_Stop(t)
    /\ ~th[t].groupStopAcknowledged /\ th'[t].groupStopAcknowledged

\* C31: whenever groupStopComplete is true, groupStopPendingCount is 0 and
\* every live member has groupStopAcknowledged set; groupStopComplete becomes
\* true only in a step in which a member acknowledges and leaves no live
\* member unacknowledged; and it becomes true in every step in which the last
\* live member acknowledges.
C31_StopCompleteWhenAllAcknowledged ==
    /\ [](tg.groupStopComplete =>
             /\ tg.groupStopPendingCount = 0
             /\ \A t \in LiveTasks : th[t].groupStopAcknowledged)
    /\ [][(~tg.groupStopComplete /\ tg'.groupStopComplete) =>
             \E t \in Tasks :
                 /\ Acknowledges(t)
                 /\ \A u \in LiveTasks' : th'[u].groupStopAcknowledged]_vars
    /\ [][\A t \in LiveTasks :
             (/\ Acknowledges(t)
              /\ \A u \in LiveTasks' : th'[u].groupStopAcknowledged)
             => tg'.groupStopComplete]_vars

\* thread t has a group stop or a ptrace stop pending
StopOrTrapPending(t) ==
    th[t].groupStopPending \/ th[t].trapStopPending \/ th[t].trapNotifyPending

\* C32: RunInterrupt checks in a fixed order.  It dequeues a signal only
\* when groupContNotify is false and the thread has no group stop or trap
\* pending, and the signal is one its mask does not block; it returns RunApp
\* only when, in addition, no signal its mask leaves unblocked is pending in
\* its own queue or the group's; with groupContNotify set it goes to notify
\* the parent, else with a stop or trap pending it goes into the stop, and
\* from both it comes back to the entry of RunInterrupt.
C32_RunInterruptOrder ==
    [][\A t \in Tasks :
          /\ (pc[t] = "intr" /\ pc'[t] = "deliver")
                => /\ ~tg.groupContNotify /\ ~StopOrTrapPending(t)
                   /\ loc'[t].info \notin th[t].signalMask
                   /\ \/ th[t].pendingSignals[loc'[t].info] > 0
                      \/ tg.pendingSignals[loc'[t].info] > 0
          /\ (pc[t] = "intr" /\ pc'[t] = "app")
                => /\ ~tg.groupContNotify /\ ~StopOrTrapPending(t)
                   /\ ~HasSignal(St, t)
          /\ (pc[t] = "intr" /\ pc'[t] # "intr" /\ tg.groupContNotify)
                => pc'[t] = "contNotify" /\ ~tg'.groupContNotify
          /\ (pc[t] = "intr" /\ pc'[t] # "intr" /\ ~tg.groupContNotify
                /\ StopOrTrapPending(t))
                => pc'[t] = "stopBegin" /\ ~StopOrTrapPending(t)'
          /\ (pc[t] = "contNotify" /\ pc'[t] # pc[t]) => pc'[t] = "intr"
          /\ (pc[t] = "stopBegin" /\ pc'[t] # pc[t])
                => pc'[t] \in {"stopNotify", "intr"}
          /\ (pc[t] = "stopNotify" /\ pc'[t] # pc[t]) => pc'[t] = "intr"]_vars

\* thread 1 returned to user mode from RunInterrupt with a signal pending that
\* its mask blocks
C32_Witness ==
    /\ last.op = "RunInterrupt" /\ last.ret = "RunApp" /\ last.t = SyscallTask
    /\ pendingSet(th[SyscallTask].pendingSignals) \cap th[SyscallTask].signalMask # {}

\* the notifications of a group continue that are due to the parent
ContDue == hist.contDue[CLD_STOPPED] + hist.contDue[CLD_CONTINUED]

\* C33: for each SIGCONT that ends a group stop and schedules groupContNotify
\* exactly one thread notifies the parent: every notification answers a
\* scheduled one and carries CLD_CONTINUED when the ended stop had completed
\* and CLD_STOPPED when it had not; each scheduled notification is either
\* still flagged by groupContNotify or in the hands of one thread, and is
\* eventually made; the thread that takes it on clears groupContNotify.
C33_OneContNotification ==
    /\ [](hist.contExtra = 0)
    /\ [](ContDue = Cardinality({t \in Tasks : pc[t] = "contNotify"})
                      + (IF tg.groupContNotify THEN 1 ELSE 0))
    /\ [][\A t \in Tasks : RunInterrupt_ContNotify(t) => ~tg'.groupContNotify]_vars
    /\ (ContDue > 0) ~> (ContDue = 0)

\* C34: a SetSignalAct that sets the action of a signal to SIG_IGN, or to
\* SIG_DFL for a signal whose default action is to ignore it, leaves no
\* instance of that signal pending in the group's queue or in any thread's
\* queue, blocked or not.
C34_IgnoringDiscardsPending ==
    [][\A sig \in ActSigs, a \in ActChoices :
          (/\ SetSignalAct(sig, a)
           /\ last'.ret = "Ok"
           /\ ComputeAction(sig, a) = IGNORE)
          => /\ tg'.pendingSignals[sig] = 0
             /\ \A t \in Tasks : th'[t].pendingSignals[sig] = 0]_vars

\* C35: once every UpdateFD has returned, and the queue's requested mask has
\* not changed (nor the fd been added or removed) since the last UpdateFD of
\* the fd started, the entry's mask is the queue's requested mask, and so is
\* the mask of the entry's outstanding submission, if the mask is not 0.
C35_UpdateFDInstallsLatestMask ==
    \A fd \in Fds :
        (/\ fd \in nlast.fresh /\ fdMap[fd].present
         /\ \A c \in Callers : npc[c] = "idle")
        => /\ fdMap[fd].mask = qmask[fd]
           /\ \A e \in Outstanding(fd) : e.mask = qmask[fd]
           /\ qmask[fd] # 0 => Outstanding(fd) # {}

\* C36: OpenPath fails with ENOTDIR exactly when the file name ends with '/'
\* and the inode it resolves to, and may read and execute, is not a
\* directory; a name with a trailing '/' that resolves to a directory is not
\* rejected with ENOTDIR.
C36_OpenPathRejectsNonDirectory ==
    (call.fn = "OpenPath" /\ call.find \in {"file", "dir"} /\ call.permOk)
        => (call.ret = "ENOTDIR"
               <=> /\ Len(call.filename) > 0
                   /\ call.filename[Len(call.filename)] = "/"
                   /\ call.find = "file")


\* C37: no interleaving of PendingSignals with SendSignal, SendGroupSignal,
\* SetSignalMask or RunInterrupt on the same thread deadlocks: every call
\* that was entered eventually returns, and never does each of two callers
\* hold one of the two mutexes while waiting for the other.
C37_SignalCallsReturn ==
    /\ \A c \in LockCallers : (lk.pc[c] # "idle") ~> (lk.pc[c] = "idle")
    /\ [](~ \E c, d \in LockCallers :
              /\ lk.thread = c /\ lk.pc[c] = "lockSignal"
              /\ lk.signalLock = d /\ lk.pc[d] = "locked"
              /\ lk.op[d] \in SignalLockFirst)


\* C38: in every reachable state no pending SIGCONT coexists with a pending
\* stop signal (SIGSTOP, SIGTSTP, SIGTTIN, SIGTTOU) in the group's queue or
\* in any member thread's queue: a send of one kind first discards the
\* pending signals of the other kind from every queue of the group.
C38_NoContWithStopPending ==
    ~ (/\ QueuedAnywhere(St, SIGCONT)
       /\ \E x \in STOP_SIGNALS \cap ModelSigs : QueuedAnywhere(St, x))

\* a stop signal was sent while a SIGCONT was pending: the SIGCONT was
\* discarded and the stop signal is now pending
C38_Witness ==
    /\ last.op \in {"SendSignal", "SendGroupSignal"}
    /\ last.sig \in STOP_SIGNALS /\ last.ret = "Ok"
    /\ hist.discarded = {SIGCONT}
    /\ QueuedAnywhere(St, last.sig)


\* C39: after any sequence of File::New, SetFlags and Async calls the async
\* owner is registered with the file's event source if and only if the
\* Async flag is set and an owner is installed; Register and Unregister
\* calls alternate, starting with Register, so that the Unregister of the
\* final drop is issued only for an owner that is registered.
C39_OwnerRegisteredIffAsync ==
    /\ [](file.registered <=> (file.flags.Async /\ file.async # NoOwner))
    /\ [][(flast' # flast) =>
             \A i \in 1..Len(flast'.calls) :
                 flast'.calls[i] \in {"Register", "Unregister"} =>
                     flast'.calls[i] =
                         IF (IF i = 1 THEN file.registered
                                      ELSE flast'.calls[i - 1] = "Register")
                         THEN "Unregister" ELSE "Register"]_vars

\* the last drop of a File that had the Async flag and an owner has
\* unregistered the owner
C39_Witness ==
    /\ flast.op = "DropCleanup" /\ flast.calls = <<"Unregister">>
    /\ file.flags.Async /\ file.async = NoOwner /\ ~file.registered
    /\ file.cleanups = 1


\* C40: if the delivery of a signal to a user handler fails (a push of the
\* SignalInfo, the UContext or the restorer address on the user stack
\* returns an error), the thread's signalMask, its haveSavedSignalMask flag
\* and its alternate signal stack are as they were before the delivery
\* attempt, so that the SIGSEGV that replaces the delivery is processed under
\* the mask the thread had before (forceSignal may unblock SIGSEGV itself).
C40_FailedDeliveryKeepsMask ==
    [][\A t \in Tasks :
          (/\ ThreadDeliverSignal(t, FALSE)
           /\ ComputeAction(loc[t].info, loc[t].act) = HANDLER)
             => /\ th'[t].signalMask \ {SIGSEGV} = th[t].signalMask \ {SIGSEGV}
                /\ th'[t].haveSavedSignalMask = th[t].haveSavedSignalMask
                /\ th'[t].signalStack = th[t].signalStack]_vars

============================================================================
